---- MODULE Spec2Model ----
(***************************************************************************)
(* Territory Capture Engine of Terrarun: the Claim Resolver of             *)
(* server/lib/territory.js (applyLoopClaims) run by concurrent service     *)
(* requests against one persistent store (territory_cells,                 *)
(* territory_claims, notifications, the activities' loop cache).           *)
(*                                                                         *)
(* Every await of a store call in applyLoopClaims is a suspension point;   *)
(* one action of the model is one store call together with the             *)
(* synchronous code that runs when it resolves, up to the next await.      *)
(* Time is counted in hours.                                               *)
(***************************************************************************)
EXTENDS Integers, Sequences, FiniteSets, TLC

VARIABLES
    cells,          \* territory_cells: cellId -> row, rows exist only once created
    claims,         \* territory_claims: the rows in insertion order
    notifications,  \* notifications: the rows in insertion order
    loopCache,      \* activity id -> its loopPolygonGeojson / bbox columns, once written
    inv,            \* the applyLoopClaims invocations in flight, per request slot
    clock,          \* the wall clock read by new Date()
    runs,           \* how many invocations were started so far
    cellVer,        \* history: how many writes each territory_cells row has seen
    idem,           \* history: the store before an activity was submitted twice
    req,            \* the service requests (sync, auto-sync, resync, territory) in flight
    geo             \* a trace taken through the geometry pipeline on its own

vars == <<cells, claims, notifications, loopCache, inv, clock, runs, cellVer,
          idem, req, geo>>

-----------------------------------------------------------------------------
(* Bounds of the model *)

MaxRuns == 3        \* invocations started in one behaviour
MaxClock == 24      \* the clock stops advancing here
TickHours == 12     \* granularity of the clock

(* Program constants *)

COOLDOWN_HOURS == 12
CELL_IDS_META_CAP == 100

-----------------------------------------------------------------------------
(* The data the requests carry *)

\* request slots: two invocations can be in flight together
Procs == {1, 2}
Users == {"u1", "u2", "u3"}
NoUser == "null"

\* friendships rows (userId, friendId); accepting a request inserts both directions
Friendships == {<<"u1", "u2">>, <<"u2", "u1">>}

\* users.nickname
Nickname(u) == "nick-" \o u

Digit(n) == SubSeq("0123456789", n + 1, n + 1)

RECURSIVE NatToString(_)
NatToString(n) ==
    IF n < 10 THEN Digit(n) ELSE NatToString(n \div 10) \o Digit(n % 10)

IntToString(n) == IF n < 0 THEN "-" \o NatToString(-n) ELSE NatToString(n)

getCellId(cellX, cellY) == IntToString(cellX) \o ":" \o IntToString(cellY)

Cell(cellX, cellY) ==
    [cellId |-> getCellId(cellX, cellY), cellX |-> cellX, cellY |-> cellY]

\* the elements of a sequence
Range(s) == {s[k] : k \in 1..Len(s)}

-----------------------------------------------------------------------------
(* Geometry: Loop Validator and Rasterizer.  A point is <<x, y>> in the      *)
(* planar metres lngLatToMercator gives (the projection is one-to-one, so    *)
(* two points are equal exactly when their lng/lat are); the traces of the   *)
(* model have whole metres as coordinates.                                   *)

CELL_SIZE_METERS == 50
LOOP_CLOSE_METERS == 100

\* what cleanPolygonPoints returns for null
NullRing == <<>>

\* the for loop of cleanPolygonPoints: consecutive duplicates are dropped
RECURSIVE DropConsecutiveDuplicates(_, _)
DropConsecutiveDuplicates(points, out) ==
    IF points = <<>> THEN out
    ELSE IF out # <<>> /\ out[Len(out)] = points[1]
         THEN DropConsecutiveDuplicates(Tail(points), out)
         ELSE DropConsecutiveDuplicates(Tail(points), Append(out, points[1]))

cleanPolygonPoints(pointsLatLng) ==
    IF Len(pointsLatLng) < 3 THEN NullRing
    ELSE LET out == DropConsecutiveDuplicates(pointsLatLng, <<>>)
         IN  IF Len(out) < 3 THEN NullRing
             ELSE LET closed == IF out[1] # out[Len(out)]
                                THEN Append(out, out[1]) ELSE out
                  IN  IF Len(closed) >= 4 THEN closed ELSE NullRing

\* the comparison with the boundary itself on the wrong side
distanceMetersAtLeast(a, b, limit) ==
    ((a[1] - b[1]) * (a[1] - b[1])) + ((a[2] - b[2]) * (a[2] - b[2]))
        >= limit * limit

\* distanceMeters(a, b) > limit: the square root is monotone and exact on
\* limit * limit, so the squares are compared
distanceMetersOver(a, b, limit) ==
    LET dx == b[1] - a[1]
        dy == b[2] - a[2]
    IN  dx * dx + dy * dy > limit * limit

\* the comparison px < (xj - xi) * (py - yi) / (yj - yi) + xi of
\* pointInPolygon in exact arithmetic (yj # yi where it is evaluated)
LeftOfCrossing(px, py, pi, pj) ==
    LET num == (pj[1] - pi[1]) * (py - pi[2])
        den == pj[2] - pi[2]
    IN  IF den > 0 THEN (px - pi[1]) * den < num
                   ELSE (px - pi[1]) * den > num

\* ray casting: the edges (polygon[j], polygon[i]), j the index before i
\* (the last one for the first), that the ray from (px, py) crosses
pointInPolygon(px, py, polygon) ==
    LET n == Len(polygon)
        Prev(i) == IF i = 1 THEN n ELSE i - 1
        Intersect(i) ==
            /\ (polygon[i][2] > py) # (polygon[Prev(i)][2] > py)
            /\ LeftOfCrossing(px, py, polygon[i], polygon[Prev(i)])
    IN  Cardinality({i \in 1..n : Intersect(i)}) % 2 = 1

Min(S) == CHOOSE m \in S : \A e \in S : m <= e
Max(S) == CHOOSE m \in S : \A e \in S : m >= e

\* the quotient truncated toward zero instead of floored
mercatorToCellTruncated(v) ==
    IF v >= 0 THEN v \div CELL_SIZE_METERS ELSE -((-v) \div CELL_SIZE_METERS)

\* Math.floor(v / CELL_SIZE_METERS)
mercatorToCell(v) == v \div CELL_SIZE_METERS

\* the cells whose centre is inside the ring, in scan order (cellX ascending,
\* then cellY ascending); every candidate has its own key, so the seen set
\* of the code never drops one
polygonToCells(polygonLngLat) ==
    IF polygonLngLat = NullRing \/ Len(polygonLngLat) < 4 THEN <<>>
    ELSE IF distanceMetersOver(polygonLngLat[1], polygonLngLat[Len(polygonLngLat)],
                               LOOP_CLOSE_METERS) THEN <<>>
    ELSE LET xs == {polygonLngLat[k][1] : k \in 1..Len(polygonLngLat)}
             ys == {polygonLngLat[k][2] : k \in 1..Len(polygonLngLat)}
             cellXMin == mercatorToCell(Min(xs))
             cellXMax == mercatorToCell(Max(xs))
             cellYMin == mercatorToCell(Min(ys))
             cellYMax == mercatorToCell(Max(ys))
             h == cellYMax - cellYMin + 1
             w == cellXMax - cellXMin + 1
             candidates == [k \in 1..(w * h) |->
                               Cell(cellXMin + ((k - 1) \div h),
                                    cellYMin + ((k - 1) % h))]
             Inside(c) ==
                 pointInPolygon(c.cellX * CELL_SIZE_METERS + (CELL_SIZE_METERS \div 2),
                                c.cellY * CELL_SIZE_METERS + (CELL_SIZE_METERS \div 2),
                                polygonLngLat)
         IN  SelectSeq(candidates, Inside)

\* activity.summaryPolyline: null, the empty string, a value that is not a
\* string, or a string, given by the points decodePolyline reads from it
NoPolyline == [type |-> "null", points |-> <<>>]
EmptyPolyline == [type |-> "empty", points |-> <<>>]
NumberPolyline == [type |-> "number", points |-> <<>>]
Polyline(points) == [type |-> "string", points |-> points]

\* LoopOutcome without the closure check of the raw trace
LoopOutcomeNoClosure(polyline) ==
    IF polyline.type \in {"null", "empty"} \/ polyline.type # "string"
    THEN "noPolyline"
    ELSE IF cleanPolygonPoints(polyline.points) = NullRing THEN "notPolygon"
    ELSE "loop"

\* the early returns of applyLoopClaims ahead of the rasterizer
LoopOutcome(polyline) ==
    IF polyline.type \in {"null", "empty"} \/ polyline.type # "string"
    THEN "noPolyline"
    ELSE IF cleanPolygonPoints(polyline.points) = NullRing THEN "notPolygon"
    ELSE IF distanceMetersOver(polyline.points[1],
                               polyline.points[Len(polyline.points)],
                               LOOP_CLOSE_METERS) THEN "notClosed"
    ELSE "loop"

\* the data of prisma.activity.update: the ring and its smallest and largest
\* coordinate on each axis
LoopColumns(polyline) ==
    LET ring == cleanPolygonPoints(polyline.points)
        lngs == {ring[k][1] : k \in 1..Len(ring)}
        lats == {ring[k][2] : k \in 1..Len(ring)}
    IN  [loopPolygonGeojson |-> ring,
         loopMinLng |-> Min(lngs), loopMinLat |-> Min(lats),
         loopMaxLng |-> Max(lngs), loopMaxLat |-> Max(lats)]

\* const cells = polygonToCells(pointsLatLng, polygonLngLat), once the
\* early returns are passed
LoopCells(polyline) ==
    IF LoopOutcome(polyline) = "loop"
    THEN polygonToCells(cleanPolygonPoints(polyline.points))
    ELSE <<>>

-----------------------------------------------------------------------------
(* The activities the ingestion subsystem stores *)

\* the activities of the concurrent requests
Activities == {"a1", "a2", "a3", "a4"}

\* further activities, met only by the requests that run one at a time
MoreActivities == {"a5", "a6", "a7", "a8", "a9", "a10", "a11", "a12"}

AllActivities == Activities \cup MoreActivities

\* the loops of the scenarios: a 500 m square, and a 550 m x 500 m rectangle
\* over it, run by two users in opposite directions
ScenarioActivities == {"sA", "sB", "sC"}

ActivityOwner(a) ==
    CASE a \in {"a1", "a4", "a7", "a8", "a9", "a10", "a11", "a12", "sA"} -> "u1"
      [] a \in {"a2", "a5", "sB"} -> "u2"
      [] OTHER -> "u3"

summaryPolyline(a) ==
    CASE a = "a1" -> Polyline(<<<<0, 0>>, <<50, 0>>, <<50, 100>>, <<0, 100>>, <<0, 0>>>>)
      [] a = "a2" -> Polyline(<<<<0, 0>>, <<50, 0>>, <<50, 50>>, <<0, 50>>, <<0, 0>>>>)
      [] a = "a3" -> Polyline(<<<<50, 50>>, <<0, 50>>, <<0, 0>>, <<50, 0>>, <<50, 50>>>>)
      [] a = "a4" -> Polyline(<<<<0, 0>>, <<50, 0>>, <<50, 100>>, <<0, 150>>>>)
      [] a = "a5" -> Polyline(<<<<50, 100>>, <<0, 100>>, <<0, 0>>, <<50, 0>>, <<50, 100>>>>)
      [] a = "a6" -> Polyline(<<<<0, 50>>, <<50, 50>>, <<50, 100>>, <<0, 100>>, <<0, 50>>>>)
      [] a = "a7" -> Polyline(<<<<0, 50>>, <<50, 50>>, <<50, 100>>, <<0, 100>>, <<0, 60>>>>)
      [] a = "a8" -> NoPolyline
      [] a = "a10" -> EmptyPolyline
      [] a = "a11" -> NumberPolyline
      [] a = "a12" -> Polyline(<<<<0, 0>>, <<20, 0>>, <<20, 20>>, <<0, 20>>, <<0, 0>>>>)
      [] a = "sA" -> Polyline(<<<<0, 0>>, <<500, 0>>, <<500, 500>>, <<0, 500>>, <<0, 0>>>>)
      [] a = "sB" -> Polyline(<<<<0, 0>>, <<550, 0>>, <<550, 500>>, <<0, 500>>, <<0, 0>>>>)
      [] a = "sC" -> Polyline(<<<<0, 0>>, <<0, 500>>, <<550, 500>>, <<550, 0>>, <<0, 0>>>>)
      [] OTHER    -> Polyline(<<<<0, 0>>, <<50, 0>>, <<50, 0>>, <<0, 0>>>>)

\* the activities rows with what the geometry pipeline makes of each trace
ActivityTable ==
    [a \in AllActivities \cup ScenarioActivities |->
        [id |-> a, userId |-> ActivityOwner(a),
         summaryPolyline |-> summaryPolyline(a),
         outcome |-> LoopOutcome(summaryPolyline(a)),
         cells |-> LoopCells(summaryPolyline(a))]]

ActivityRow(a) == ActivityTable[a]

\* the keys of the cells any activity rasterizes to
CellIds == UNION {{ActivityRow(a).cells[k].cellId :
                      k \in 1..Len(ActivityRow(a).cells)} : a \in AllActivities}

-----------------------------------------------------------------------------
(* Pure pieces of applyLoopClaims *)

lockedUntilNew(now) == now + COOLDOWN_HOURS

\* DecideTransition without the cooldown test of the last branch
DecideNoCooldown(existing, userId, now) ==
    IF existing = <<>> THEN "create"
    ELSE IF existing[1].ownerUserId = userId THEN "refresh"
    ELSE "transfer"

\* DecideTransition with the cooldown test written >= instead of >
DecideStrictExpiry(existing, userId, now) ==
    IF existing = <<>> THEN "create"
    ELSE IF existing[1].ownerUserId = userId THEN "refresh"
    ELSE IF existing[1].lockedUntil >= now THEN "skip"
    ELSE "transfer"

\* The branch taken for one cell: existing is <<>> when findUnique returns
\* null, else <<row>>.
DecideTransition(existing, userId, now) ==
    IF existing = <<>> THEN "create"
    ELSE IF existing[1].ownerUserId = userId THEN "refresh"
    ELSE IF existing[1].lockedUntil > now THEN "skip"
    ELSE "transfer"

\* CreatedCell with the lock set to now instead of now + cooldown
CreatedCellNoLock(cell, userId, now, activityId) ==
    [cellId |-> cell.cellId, cellX |-> cell.cellX, cellY |-> cell.cellY,
     ownerUserId |-> userId, lockedUntil |-> now,
     lastClaimedAt |-> now, lastActivityId |-> activityId]

\* territoryCell.create data
CreatedCell(cell, userId, now, activityId) ==
    [cellId |-> cell.cellId, cellX |-> cell.cellX, cellY |-> cell.cellY,
     ownerUserId |-> userId, lockedUntil |-> lockedUntilNew(now),
     lastClaimedAt |-> now, lastActivityId |-> activityId]

\* RefreshedCell leaving the lock of the first claim in place
RefreshedCellKeepLock(row, now, activityId) ==
    [row EXCEPT !.lastClaimedAt = now,
                !.lastActivityId = activityId]

\* territoryCell.update of the owner's own cell: the owner column is not written
RefreshedCell(row, now, activityId) ==
    [row EXCEPT !.lockedUntil = lockedUntilNew(now),
                !.lastClaimedAt = now,
                !.lastActivityId = activityId]

\* territoryCell.update of a captured cell
TransferredCell(row, userId, now, activityId) ==
    [row EXCEPT !.ownerUserId = userId,
                !.lockedUntil = lockedUntilNew(now),
                !.lastClaimedAt = now,
                !.lastActivityId = activityId]

\* ClaimRow with claimer and previous owner swapped
ClaimRowSwapped(cell, userId, previousOwnerUserId, activityId, reason, basis) ==
    [cellId |-> cell.cellId, cellX |-> cell.cellX, cellY |-> cell.cellY,
     claimerUserId |-> previousOwnerUserId, previousOwnerUserId |-> userId,
     activityId |-> activityId, reason |-> reason,
     basis |-> basis]

\* territoryClaim.create data
ClaimRow(cell, userId, previousOwnerUserId, activityId, reason, basis) ==
    [cellId |-> cell.cellId, cellX |-> cell.cellX, cellY |-> cell.cellY,
     claimerUserId |-> userId, previousOwnerUserId |-> previousOwnerUserId,
     activityId |-> activityId, reason |-> reason,
     basis |-> basis]  \* history: the version of the row the decision read

\* an upsert keyed on the cell instead of an insert: the cell's earlier row
\* is replaced
UpsertClaim(log, row) ==
    IF \E n \in 1..Len(log) : log[n].cellId = row.cellId
    THEN [n \in 1..Len(log) |-> IF log[n].cellId = row.cellId THEN row ELSE log[n]]
    ELSE Append(log, row)

\* prisma.territoryClaim.create: the row is inserted, nothing else is touched
InsertClaim(log, row) == Append(log, row)

\* a territory_cells table with the row of cellId inserted or replaced
PutRow(table, cellId, row) ==
    [id \in DOMAIN table \cup {cellId} |-> IF id = cellId THEN row ELSE table[id]]

\* lostByPreviousOwner.get / set / entry.cellIds.push, in insertion order
RECURSIVE PushLost(_, _, _)
PushLost(lost, previousOwnerId, cell) ==
    IF lost = <<>> THEN <<[owner |-> previousOwnerId, cellIds |-> <<cell.cellId>>]>>
    ELSE IF lost[1].owner = previousOwnerId
         THEN <<[lost[1] EXCEPT !.cellIds = Append(@, cell.cellId)]>> \o Tail(lost)
         ELSE <<lost[1]>> \o PushLost(Tail(lost), previousOwnerId, cell)

\* ConquestNotification with the whole list of lost cells in the sample
ConquestNotificationUncapped(entry, userId) ==
    LET isFriend == \/ <<entry.owner, userId>> \in Friendships
                    \/ <<userId, entry.owner>> \in Friendships
        attackerNickname == IF isFriend THEN Nickname(userId) ELSE NoUser
    IN  [userId |-> entry.owner,
         type |-> "TERRITORY_CONQUERED",
         title |-> "Your territory was conquered!",
         body |-> IF attackerNickname # NoUser
                  THEN attackerNickname \o " conquered part of your territory."
                  ELSE "Some of your land was taken while you were away.",
         cellIds |-> entry.cellIds,
         countLost |-> Len(entry.cellIds),
         attackerUserId |-> userId,
         attackerNickname |-> attackerNickname]

\* mercatorToLngLat of the cell centres is not modelled: the summary keeps the
\* cells, from which bbox and centroid are computed.
ConquestNotification(entry, userId) ==
    LET isFriend == \/ <<entry.owner, userId>> \in Friendships
                    \/ <<userId, entry.owner>> \in Friendships
        attackerNickname == IF isFriend THEN Nickname(userId) ELSE NoUser
    IN  [userId |-> entry.owner,
         type |-> "TERRITORY_CONQUERED",
         title |-> "Your territory was conquered!",
         body |-> IF attackerNickname # NoUser
                  THEN attackerNickname \o " conquered part of your territory."
                  ELSE "Some of your land was taken while you were away.",
         cellIds |-> SubSeq(entry.cellIds, 1,
                            IF Len(entry.cellIds) < CELL_IDS_META_CAP
                            THEN Len(entry.cellIds) ELSE CELL_IDS_META_CAP),
         countLost |-> Len(entry.cellIds),
         attackerUserId |-> userId,
         attackerNickname |-> attackerNickname]

-----------------------------------------------------------------------------
(* One invocation of applyLoopClaims *)

Idle ==
    [pc |-> "idle", userId |-> NoUser, activity |-> "none", now |-> 0,
     i |-> 0, existing |-> <<>>, readVer |-> 0,
     gainedCellIds |-> <<>>, lostCellIds |-> <<>>, defendedCellIds |-> <<>>,
     cellsCreated |-> 0, claimsCreated |-> 0,
     lostByPreviousOwner |-> <<>>, k |-> 0, loopPolygonGeojson |-> FALSE]

\* the cells the invocation in slot p iterates over, and the one it is at
CellsOf(p) == ActivityRow(inv[p].activity).cells
CurrentCell(p) == CellsOf(p)[inv[p].i]

\* the places where the invocation is suspended in a store call
StoreCallPcs ==
    {"updateActivity", "findUnique", "create", "createClaim", "refresh",
     "refreshClaim", "transfer", "transferClaim", "notify"}

\* no activity is being submitted twice
NoSubmission == [phase |-> "prelude", activity |-> "none", cells0 |-> <<>>,
                 claimsLen |-> 0]

\* no request handler is driving slot 1
NoRequest == [phase |-> "none"]

\* no trace is in the geometry pipeline
NoGeometry == [stage |-> "none"]

Init ==
    /\ cells = <<>>
    /\ claims = <<>>
    /\ notifications = <<>>
    /\ loopCache = <<>>
    /\ inv = [p \in Procs |-> Idle]
    /\ clock = 0
    /\ runs = 0
    /\ cellVer = [c \in CellIds |-> 0]
    /\ idem = NoSubmission
    /\ req = NoRequest
    /\ geo = NoGeometry

\* the invocation once a store call rejected: the promise is rejected and
\* the locals are gone
Failed(r) == [Idle EXCEPT !.pc = "failed", !.userId = r.userId,
                          !.activity = r.activity]

\* the invocation record once the for loop is left
AfterLoop(r) ==
    IF Len(r.lostByPreviousOwner) > 0
    THEN [r EXCEPT !.pc = "notify", !.k = 1, !.existing = <<>>, !.readVer = 0]
    ELSE [r EXCEPT !.pc = "done", !.existing = <<>>, !.readVer = 0]

\* the invocation record once cell i is dealt with: the next findUnique is issued
NextCell(r) ==
    IF r.i + 1 > Len(ActivityRow(r.activity).cells)
    THEN AfterLoop([r EXCEPT !.i = r.i + 1])
    ELSE [r EXCEPT !.i = r.i + 1, !.pc = "findUnique", !.existing = <<>>,
                   !.readVer = 0]

\* applyLoopClaims is called for activity a by its owner (sync, resync and
\* reconcile all pass user.id and one of the user's activities); the code
\* up to the first await runs
StartCall(p, a) ==
    LET row == ActivityRow(a)
        r == [Idle EXCEPT !.userId = row.userId, !.activity = a]
    IN  /\ inv[p].pc = "idle"
        /\ \A q \in Procs : q < p => inv[q].pc # "idle"  \* slots are interchangeable
        /\ runs < MaxRuns
        /\ runs' = runs + 1
        /\ inv' = [inv EXCEPT ![p] =
                     IF row.outcome # "loop" THEN [r EXCEPT !.pc = "done"]
                     ELSE IF Len(row.cells) > 0
                          THEN [r EXCEPT !.pc = "updateActivity",
                                         !.loopPolygonGeojson = TRUE]
                          ELSE [r EXCEPT !.pc = "done", !.now = clock]]
        /\ UNCHANGED <<cells, claims, notifications, loopCache, clock, cellVer, geo>>

Start(p, a) == StartCall(p, a) /\ UNCHANGED <<idem, req>>

\* the invocation goes on to the cells without the activity row being written
UpdateActivityNoWrite(p) ==
    /\ inv[p].pc = "updateActivity"
    /\ inv' = [inv EXCEPT ![p] = [@ EXCEPT !.pc = "findUnique", !.now = clock,
                                           !.i = 1]]
    /\ UNCHANGED <<cells, claims, notifications, loopCache, clock, runs, cellVer,
                   idem, req, geo>>

\* prisma.activity.update resolves; now is sampled and the loop is entered
UpdateActivity(p) ==
    /\ inv[p].pc = "updateActivity"
    /\ loopCache' = PutRow(loopCache, inv[p].activity,
                           LoopColumns(ActivityRow(inv[p].activity).summaryPolyline))
    /\ inv' = [inv EXCEPT ![p] = [@ EXCEPT !.pc = "findUnique", !.now = clock,
                                           !.i = 1]]
    /\ UNCHANGED <<cells, claims, notifications, clock, runs, cellVer, idem, req, geo>>

\* prisma.territoryCell.findUnique resolves and the branch is chosen
FindUnique(p) ==
    LET r == inv[p]
        cell == CurrentCell(p)
        existing == IF cell.cellId \in DOMAIN cells
                    THEN <<cells[cell.cellId]>> ELSE <<>>
        kind == DecideTransition(existing, r.userId, r.now)
    IN  /\ r.pc = "findUnique"
        /\ inv' = [inv EXCEPT ![p] =
                     IF kind = "skip" THEN NextCell(r)
                     ELSE [r EXCEPT !.pc = kind, !.existing = existing,
                                    !.readVer = cellVer[cell.cellId]]]
        /\ UNCHANGED <<cells, claims, notifications, loopCache, clock, runs,
                       cellVer, idem, req, geo>>

\* the store after a row for cellId is inserted or replaced
WithRow(cellId, row) == PutRow(cells, cellId, row)

\* the invocation goes on to the claim row with the cell not yet inserted
CreateCellDeferred(p) ==
    /\ inv[p].pc = "create"
    /\ inv' = [inv EXCEPT ![p] = [@ EXCEPT !.pc = "createClaim",
                                           !.cellsCreated = @ + 1]]
    /\ UNCHANGED <<cells, claims, notifications, loopCache, clock, runs, cellVer,
                   idem, req, geo>>

\* the create on a table without a primary key: a row that exists by now is
\* replaced
CreateCellUnkeyed(p) ==
    LET r == inv[p]
        cell == CurrentCell(p)
    IN  /\ r.pc = "create"
        /\ cells' = WithRow(cell.cellId,
                            CreatedCell(cell, r.userId, r.now, r.activity))
        /\ cellVer' = [cellVer EXCEPT ![cell.cellId] = @ + 1]
        /\ inv' = [inv EXCEPT ![p] = [r EXCEPT !.pc = "createClaim",
                                               !.cellsCreated = @ + 1]]
        /\ UNCHANGED <<claims, notifications, loopCache, clock, runs, idem, req, geo>>

\* prisma.territoryCell.create resolves: cellId is the primary key, so the
\* insert is rejected when a row exists by now and the invocation throws
CreateCell(p) ==
    LET r == inv[p]
        cell == CurrentCell(p)
    IN  /\ r.pc = "create"
        /\ IF cell.cellId \in DOMAIN cells
           THEN /\ inv' = [inv EXCEPT ![p] = Failed(r)]
                /\ UNCHANGED <<cells, cellVer>>
           ELSE /\ cells' = WithRow(cell.cellId,
                                    CreatedCell(cell, r.userId, r.now, r.activity))
                /\ cellVer' = [cellVer EXCEPT ![cell.cellId] = @ + 1]
                /\ inv' = [inv EXCEPT ![p] =
                             [r EXCEPT !.pc = "createClaim",
                                       !.cellsCreated = @ + 1]]
        /\ UNCHANGED <<claims, notifications, loopCache, clock, runs, idem, req, geo>>

CreateClaim(p) ==
    LET r == inv[p]
        cell == CurrentCell(p)
    IN  /\ r.pc = "createClaim"
        /\ claims' = InsertClaim(claims, ClaimRow(cell, r.userId, NoUser, r.activity,
                                             "LOOP_CAPTURE", r.readVer))
        /\ inv' = [inv EXCEPT ![p] =
                     NextCell([r EXCEPT !.claimsCreated = @ + 1,
                                        !.gainedCellIds = Append(@, cell.cellId)])]
        /\ UNCHANGED <<cells, notifications, loopCache, clock, runs, cellVer, idem, req, geo>>

\* prisma.territoryCell.update of the claimer's own cell resolves
RefreshCell(p) ==
    LET r == inv[p]
        cell == CurrentCell(p)
    IN  /\ r.pc = "refresh"
        /\ cells' = WithRow(cell.cellId,
                            RefreshedCell(cells[cell.cellId], r.now, r.activity))
        /\ cellVer' = [cellVer EXCEPT ![cell.cellId] = @ + 1]
        /\ inv' = [inv EXCEPT ![p] = [r EXCEPT !.pc = "refreshClaim"]]
        /\ UNCHANGED <<claims, notifications, loopCache, clock, runs, idem, req, geo>>

RefreshClaim(p) ==
    LET r == inv[p]
        cell == CurrentCell(p)
    IN  /\ r.pc = "refreshClaim"
        /\ claims' = InsertClaim(claims, ClaimRow(cell, r.userId, r.userId, r.activity,
                                             "LOOP_DEFEND_REFRESH", r.readVer))
        /\ inv' = [inv EXCEPT ![p] =
                     NextCell([r EXCEPT !.claimsCreated = @ + 1,
                                        !.defendedCellIds = Append(@, cell.cellId)])]
        /\ UNCHANGED <<cells, notifications, loopCache, clock, runs, cellVer, idem, req, geo>>

\* prisma.territoryCell.update of a captured cell resolves
TransferCell(p) ==
    LET r == inv[p]
        cell == CurrentCell(p)
    IN  /\ r.pc = "transfer"
        /\ cells' = WithRow(cell.cellId,
                            TransferredCell(cells[cell.cellId], r.userId, r.now,
                                            r.activity))
        /\ cellVer' = [cellVer EXCEPT ![cell.cellId] = @ + 1]
        /\ inv' = [inv EXCEPT ![p] = [r EXCEPT !.pc = "transferClaim"]]
        /\ UNCHANGED <<claims, notifications, loopCache, clock, runs, idem, req, geo>>

TransferClaim(p) ==
    LET r == inv[p]
        cell == CurrentCell(p)
        previousOwnerId == r.existing[1].ownerUserId
    IN  /\ r.pc = "transferClaim"
        /\ claims' = InsertClaim(claims, ClaimRow(cell, r.userId, previousOwnerId,
                                             r.activity, "LOOP_CAPTURE", r.readVer))
        /\ inv' = [inv EXCEPT ![p] =
                     NextCell([r EXCEPT
                         !.claimsCreated = @ + 1,
                         !.gainedCellIds = Append(@, cell.cellId),
                         !.lostCellIds = Append(@, cell.cellId),
                         !.lostByPreviousOwner =
                             PushLost(@, previousOwnerId, cell)])]
        /\ UNCHANGED <<cells, notifications, loopCache, clock, runs, cellVer, idem, req, geo>>

\* one round of the conquest loop: friendship.findFirst and
\* notification.create for the k-th previous owner
Notify(p) ==
    LET r == inv[p]
        entry == r.lostByPreviousOwner[r.k]
    IN  /\ r.pc = "notify"
        /\ notifications' = Append(notifications,
                                   ConquestNotification(entry, r.userId))
        /\ inv' = [inv EXCEPT ![p] =
                     IF r.k + 1 > Len(r.lostByPreviousOwner)
                     THEN [r EXCEPT !.pc = "done", !.k = r.k + 1]
                     ELSE [r EXCEPT !.k = r.k + 1]]
        /\ UNCHANGED <<cells, claims, loopCache, clock, runs, cellVer, idem, req, geo>>

\* the pending store call rejects (storage error): applyLoopClaims throws
StorageError(p) ==
    /\ inv[p].pc \in StoreCallPcs
    /\ inv' = [inv EXCEPT ![p] = Failed(@)]
    /\ UNCHANGED <<cells, claims, notifications, loopCache, clock, runs, cellVer, idem, req, geo>>

\* the caller takes the returned result
Return(p) ==
    /\ inv[p].pc = "done"
    /\ inv' = [inv EXCEPT ![p] = Idle]
    /\ UNCHANGED <<cells, claims, notifications, loopCache, clock, runs, cellVer, idem, req, geo>>

\* the caller's catch: the error is logged and the batch goes on
Catch(p) ==
    /\ inv[p].pc = "failed"
    /\ inv' = [inv EXCEPT ![p] = Idle]
    /\ UNCHANGED <<cells, claims, notifications, loopCache, clock, runs, cellVer, idem, req, geo>>

Tick ==
    /\ clock + TickHours <= MaxClock
    /\ clock' = clock + TickHours
    /\ UNCHANGED <<cells, claims, notifications, loopCache, inv, runs, cellVer, idem, req, geo>>

Next ==
    \/ \E p \in Procs, a \in Activities : Start(p, a)
    \/ \E p \in Procs : UpdateActivity(p)
    \/ \E p \in Procs : FindUnique(p)
    \/ \E p \in Procs : CreateCell(p)
    \/ \E p \in Procs : CreateClaim(p)
    \/ \E p \in Procs : RefreshCell(p)
    \/ \E p \in Procs : RefreshClaim(p)
    \/ \E p \in Procs : TransferCell(p)
    \/ \E p \in Procs : TransferClaim(p)
    \/ \E p \in Procs : Notify(p)
    \/ \E p \in Procs : StorageError(p)
    \/ \E p \in Procs : Return(p)
    \/ \E p \in Procs : Catch(p)
    \/ Tick

Spec == Init /\ [][Next]_vars

\* The same system on a store whose calls never reject for a reason of its
\* own: the only error left is the primary-key violation of a create.
NextReliableStore ==
    \/ \E p \in Procs, a \in Activities : Start(p, a)
    \/ \E p \in Procs : UpdateActivity(p)
    \/ \E p \in Procs : FindUnique(p)
    \/ \E p \in Procs : CreateCell(p)
    \/ \E p \in Procs : CreateClaim(p)
    \/ \E p \in Procs : RefreshCell(p)
    \/ \E p \in Procs : RefreshClaim(p)
    \/ \E p \in Procs : TransferCell(p)
    \/ \E p \in Procs : TransferClaim(p)
    \/ \E p \in Procs : Notify(p)
    \/ \E p \in Procs : Return(p)
    \/ \E p \in Procs : Catch(p)
    \/ Tick

SpecReliableStore == Init /\ [][NextReliableStore]_vars

-----------------------------------------------------------------------------
(* One activity submitted twice by its user (sync, then resync; or resync    *)
(* twice), one request at a time on a store whose calls succeed              *)

\* what one complete, undisturbed applyLoopClaims leaves in territory_cells:
\* the cells of the loop resolved one after the other against the table
RECURSIVE ResolveCells(_, _, _, _, _)
ResolveCells(table, cellSeq, userId, now, activityId) ==
    IF cellSeq = <<>> THEN table
    ELSE LET cell == cellSeq[1]
             existing == IF cell.cellId \in DOMAIN table
                         THEN <<table[cell.cellId]>> ELSE <<>>
             kind == DecideTransition(existing, userId, now)
             next ==
                 CASE kind = "create" ->
                        PutRow(table, cell.cellId,
                               CreatedCell(cell, userId, now, activityId))
                   [] kind = "refresh" ->
                        PutRow(table, cell.cellId,
                               RefreshedCell(table[cell.cellId], now, activityId))
                   [] kind = "transfer" ->
                        PutRow(table, cell.cellId,
                               TransferredCell(table[cell.cellId], userId, now,
                                               activityId))
                   [] OTHER -> table
         IN  ResolveCells(next, Tail(cellSeq), userId, now, activityId)

\* a single submission of activity a at time now against the table
SingleSubmission(table, a, now) ==
    IF ActivityRow(a).outcome = "loop"
    THEN ResolveCells(table, ActivityRow(a).cells, ActivityRow(a).userId, now, a)
    ELSE table

\* any request before the two submissions
PreludeStart(a) ==
    /\ idem.phase = "prelude"
    /\ Start(1, a)

\* the activity is submitted for the first time; the store is remembered
SubmitFirst(a) ==
    /\ idem.phase = "prelude"
    /\ StartCall(1, a)
    /\ idem' = [phase |-> "first", activity |-> a, cells0 |-> cells,
                claimsLen |-> Len(claims)]
    /\ UNCHANGED req

\* the first submission has returned and the same activity is submitted again
SubmitSecond ==
    /\ idem.phase = "first"
    /\ StartCall(1, idem.activity)
    /\ idem' = [idem EXCEPT !.phase = "second", !.claimsLen = Len(claims)]
    /\ UNCHANGED req

NextIdem ==
    \/ \E a \in Activities : PreludeStart(a)
    \/ \E a \in Activities : SubmitFirst(a)
    \/ SubmitSecond
    \/ UpdateActivity(1)
    \/ FindUnique(1)
    \/ CreateCell(1)
    \/ CreateClaim(1)
    \/ RefreshCell(1)
    \/ RefreshClaim(1)
    \/ TransferCell(1)
    \/ TransferClaim(1)
    \/ Notify(1)
    \/ Return(1)
    \/ Tick

SpecIdem == Init /\ [][NextIdem]_vars

-----------------------------------------------------------------------------
(* Requests served one at a time: every applyLoopClaims returns or throws    *)
(* before the next one is called; any stored activity may come again         *)
(* (resync and reconcile re-apply the activities a user already has)         *)

SeqStart(a) ==
    /\ req.phase = "none"
    /\ Start(1, a)

NextSequential ==
    \/ \E a \in AllActivities : SeqStart(a)
    \/ UpdateActivity(1)
    \/ FindUnique(1)
    \/ CreateCell(1)
    \/ CreateClaim(1)
    \/ RefreshCell(1)
    \/ RefreshClaim(1)
    \/ TransferCell(1)
    \/ TransferClaim(1)
    \/ Notify(1)
    \/ StorageError(1)
    \/ Return(1)
    \/ Catch(1)
    \/ Tick

SpecSequential == Init /\ [][NextSequential]_vars

\* the same on a store whose calls all succeed
NextSequentialReliable ==
    \/ \E a \in AllActivities : SeqStart(a)
    \/ UpdateActivity(1)
    \/ FindUnique(1)
    \/ CreateCell(1)
    \/ CreateClaim(1)
    \/ RefreshCell(1)
    \/ RefreshClaim(1)
    \/ TransferCell(1)
    \/ TransferClaim(1)
    \/ Notify(1)
    \/ Return(1)
    \/ Tick

SpecSequentialReliable == Init /\ [][NextSequentialReliable]_vars

-----------------------------------------------------------------------------
(* A sync or resync request of one user: runIncrementalSync and the loop of  *)
(* POST /api/strava/resync call applyLoopClaims once per activity of their   *)
(* list, each call in its own try/catch, and the handler answers at the end  *)

MaxBatch == 2       \* activities in the list of one request

\* the user whose request is modelled
RequestUser == "u1"

\* the activities Strava lists for the user
BatchActivities == {"a1", "a4", "a7"}

\* the first occurrence of each element: [...new Set(list)]
RECURSIVE Unique(_)
Unique(list) ==
    IF list = <<>> THEN <<>>
    ELSE LET rest == Unique(SubSeq(list, 1, Len(list) - 1))
             e == list[Len(list)]
         IN  IF e \in Range(rest) THEN rest ELSE Append(rest, e)

\* lists of distinct activities of the user, as Strava returns them (sync)
\* or as findMany returns the stored ones that have a polyline (resync)
BatchLists(kind) ==
    LET mine == {a \in BatchActivities :
                    /\ ActivityOwner(a) = RequestUser
                    /\ kind = "resync" => summaryPolyline(a).type # "null"}
    IN  {l \in UNION {[1..n -> mine] : n \in 1..MaxBatch} :
            \A i, j \in 1..Len(l) : i # j => l[i] # l[j]}

NoResponse == [status |-> 0]

NewRequest(kind, list, stored) ==
    [phase |-> "loop", kind |-> kind, orig |-> list, list |-> list,
     stored0 |-> stored, stored |-> stored, added |-> 0,
     territoryGained |-> <<>>, territoryLost |-> <<>>, gainedPolygons |-> <<>>,
     applied |-> <<>>,     \* history: the activities handed to applyLoopClaims
     failed |-> <<>>,      \* history: those whose applyLoopClaims threw
     response |-> NoResponse]

\* the request after the catch of one activity, leaving the batch at once
AfterCatchAborting(r, a) ==
    [r EXCEPT !.failed = Append(@, a), !.list = <<>>]

\* the request after catch (err) { console.error(...) }: nothing but the log
AfterCatch(r, a) == [r EXCEPT !.failed = Append(@, a)]

\* the request after a result was taken: the lists are extended
AfterResult(r, res) ==
    [r EXCEPT !.territoryGained = @ \o res.gainedCellIds,
              !.territoryLost = @ \o res.lostCellIds,
              !.gainedPolygons = IF r.kind = "sync" /\ res.loopPolygonGeojson
                                 THEN Append(@, res.activity) ELSE @]

\* res.json({ ok: true, ... }): the cells of the lists that findMany returns
SuccessResponse(r, table) ==
    [status |-> 200, ok |-> TRUE, added |-> r.added,
     gained |-> {c \in Range(Unique(r.territoryGained)) : c \in DOMAIN table},
     lost |-> {c \in Range(Unique(r.territoryLost)) : c \in DOMAIN table},
     gainedPolygons |-> r.gainedPolygons]

\* res.status(500).json({ error: e.message })
ErrorResponse == [status |-> 500, error |-> "message"]

\* the handler starts: the list is fetched; for a sync some of the listed
\* activities may be stored already
BeginRequest(kind, list, stored) ==
    /\ req.phase = "none"
    /\ inv[1].pc = "idle"
    /\ kind = "resync" => stored = Range(list)
    /\ req' = NewRequest(kind, list, stored)
    /\ UNCHANGED <<cells, claims, notifications, loopCache, inv, clock, runs,
                   cellVer, idem, geo>>

\* sync: activity.findUnique finds the activity stored: continue
SkipExisting ==
    /\ req.phase = "loop"
    /\ inv[1].pc = "idle"
    /\ req.list # <<>>
    /\ req.kind = "sync"
    /\ Head(req.list) \in req.stored
    /\ req' = [req EXCEPT !.list = Tail(@)]
    /\ UNCHANGED <<cells, claims, notifications, loopCache, inv, clock, runs,
                   cellVer, idem, geo>>

\* the next activity is stored (sync) or read (resync) and applyLoopClaims
\* is called for it
ApplyNext ==
    /\ req.phase = "loop"
    /\ req.list # <<>>
    /\ req.kind = "sync" => Head(req.list) \notin req.stored
    /\ StartCall(1, Head(req.list))
    /\ req' = [req EXCEPT !.list = Tail(@),
                          !.stored = @ \cup {Head(req.list)},
                          !.added = IF req.kind = "sync" THEN @ + 1 ELSE @,
                          !.applied = Append(@, Head(req.list))]
    /\ UNCHANGED idem

\* applyLoopClaims returned: the result is pushed to the request's lists
TakeResult ==
    /\ req.phase = "loop"
    /\ inv[1].pc = "done"
    /\ req' = AfterResult(req, inv[1])
    /\ inv' = [inv EXCEPT ![1] = Idle]
    /\ UNCHANGED <<cells, claims, notifications, loopCache, clock, runs, cellVer,
                   idem, geo>>

\* applyLoopClaims threw: the catch around it logs the error
CatchInBatch ==
    /\ req.phase = "loop"
    /\ inv[1].pc = "failed"
    /\ req' = AfterCatch(req, inv[1].activity)
    /\ inv' = [inv EXCEPT ![1] = Idle]
    /\ UNCHANGED <<cells, claims, notifications, loopCache, clock, runs, cellVer,
                   idem, geo>>

\* a store call of the handler itself (activity.findUnique, activity.create,
\* stravaAccount.update) rejects: the handler's outer catch answers 500
HandlerThrows ==
    /\ req.phase = "loop"
    /\ inv[1].pc = "idle"
    /\ req' = [req EXCEPT !.phase = "responded", !.response = ErrorResponse]
    /\ UNCHANGED <<cells, claims, notifications, loopCache, inv, clock, runs,
                   cellVer, idem, geo>>

\* the list is done: the handler answers
Respond ==
    /\ req.phase = "loop"
    /\ inv[1].pc = "idle"
    /\ req.list = <<>>
    /\ req' = [req EXCEPT !.phase = "responded",
                          !.response = SuccessResponse(req, cells)]
    /\ UNCHANGED <<cells, claims, notifications, loopCache, inv, clock, runs,
                   cellVer, idem, geo>>

\* requests of the other users served before this one
EarlierStart(a) ==
    /\ ActivityOwner(a) # RequestUser
    /\ SeqStart(a)

EarlierReturn ==
    /\ req.phase = "none"
    /\ Return(1)

NextBatch ==
    \/ \E a \in AllActivities : EarlierStart(a)
    \/ EarlierReturn
    \/ \E kind \in {"sync", "resync"} :
          \E list \in BatchLists(kind) :
              \E stored \in SUBSET Range(list) :
                  BeginRequest(kind, list, stored)
    \/ SkipExisting
    \/ ApplyNext
    \/ TakeResult
    \/ CatchInBatch
    \/ HandlerThrows
    \/ Respond
    \/ UpdateActivity(1)
    \/ FindUnique(1)
    \/ CreateCell(1)
    \/ CreateClaim(1)
    \/ RefreshCell(1)
    \/ RefreshClaim(1)
    \/ TransferCell(1)
    \/ TransferClaim(1)
    \/ Notify(1)
    \/ StorageError(1)
    \/ Tick

SpecBatch == Init /\ [][NextBatch]_vars

-----------------------------------------------------------------------------
(* The scenario loops, processed one at a time on a store whose calls        *)
(* succeed; the store at each call is remembered                             *)

ScenarioCellIds == UNION {{ActivityRow(a).cells[k].cellId :
                               k \in 1..Len(ActivityRow(a).cells)} :
                                   a \in ScenarioActivities}

InitScenario ==
    /\ cells = <<>>
    /\ claims = <<>>
    /\ notifications = <<>>
    /\ loopCache = <<>>
    /\ inv = [p \in Procs |-> Idle]
    /\ clock = 0
    /\ runs = 0
    /\ cellVer = [c \in ScenarioCellIds |-> 0]
    /\ idem = NoSubmission
    /\ req = NoRequest
    /\ geo = NoGeometry

\* applyLoopClaims is called for a scenario loop
ScenarioStart(a) ==
    /\ StartCall(1, a)
    /\ idem' = [phase |-> "first", activity |-> a, cells0 |-> cells,
                claimsLen |-> Len(claims),
                notificationsLen |-> Len(notifications)]
    /\ UNCHANGED req

NextScenario ==
    \/ \E a \in ScenarioActivities : ScenarioStart(a)
    \/ UpdateActivity(1)
    \/ FindUnique(1)
    \/ CreateCell(1)
    \/ CreateClaim(1)
    \/ RefreshCell(1)
    \/ RefreshClaim(1)
    \/ TransferCell(1)
    \/ TransferClaim(1)
    \/ Notify(1)
    \/ Return(1)
    \/ Tick

SpecScenario == InitScenario /\ [][NextScenario]_vars

-----------------------------------------------------------------------------
(* The geometry pipeline on its own: one decoded trace is cleaned, checked   *)
(* for closure and rasterized, as lines 192-207 of applyLoopClaims do        *)

\* a trace from its first point, the points in between and its last point
Trace(first, body, last) == <<first>> \o body \o <<last>>

\* the points between the ends: a 200 m square, a triangle, one cell, a
\* detour that comes back over the same point twice, and a stretch run out
\* and back between the same two points
TraceBodies ==
    { <<<<200, 0>>, <<200, 200>>, <<0, 200>>>>,
      <<<<150, 0>>, <<0, 150>>>>,
      <<<<50, 0>>, <<50, 50>>, <<0, 50>>>>,
      <<<<200, 0>>, <<200, 0>>, <<200, 200>>, <<200, 200>>, <<0, 200>>>>,
      <<<<40, 0>>, <<0, 0>>, <<40, 0>>>> }

\* last points at 0, 99, 100, 101 and 150 m of the first, along the axes and
\* askew (60-80-100 is a right triangle)
TraceEnds ==
    { <<0, 0>>, <<0, 99>>, <<0, 100>>, <<0, 101>>, <<100, 0>>, <<101, 0>>,
      <<60, 80>>, <<60, 81>>, <<-80, -60>>, <<-80, -61>>, <<71, 71>>,
      <<70, 71>>, <<0, 150>> }

\* traces too short to be a polygon
ShortTraces ==
    { <<>>, <<<<0, 0>>>>, <<<<0, 0>>, <<40, 0>>>>,
      <<<<0, 0>>, <<0, 0>>, <<40, 0>>>>,
      <<<<0, 0>>, <<40, 0>>, <<0, 0>>>>,
      <<<<0, 0>>, <<40, 0>>, <<40, 0>>, <<0, 0>>>> }

GeometryInputs ==
    {NoPolyline, EmptyPolyline, NumberPolyline}
    \cup {Polyline(t) : t \in ShortTraces}
    \cup {Polyline(Trace(<<0, 0>>, b, e)) : b \in TraceBodies, e \in TraceEnds}

\* the ring traversed the other way round
Reverse(ring) == [k \in 1..Len(ring) |-> ring[Len(ring) + 1 - k]]

InitGeometry ==
    /\ cells = <<>>
    /\ claims = <<>>
    /\ notifications = <<>>
    /\ loopCache = <<>>
    /\ inv = [p \in Procs |-> Idle]
    /\ clock = 0
    /\ runs = 0
    /\ cellVer = [c \in CellIds |-> 0]
    /\ idem = NoSubmission
    /\ req = NoRequest
    /\ geo \in {[stage |-> "decoded", polyline |-> p, ring |-> NullRing,
                 outcome |-> "none", cells |-> <<>>, reversed |-> <<>>] :
                   p \in GeometryInputs}

geometryFrame == <<cells, claims, notifications, loopCache, inv, clock, runs,
                   cellVer, idem, req>>

\* the early return on the polyline itself
CheckPolyline ==
    /\ geo.stage = "decoded"
    /\ geo' = IF LoopOutcome(geo.polyline) = "noPolyline"
              THEN [geo EXCEPT !.stage = "returned", !.outcome = "noPolyline"]
              ELSE [geo EXCEPT !.stage = "checked"]
    /\ UNCHANGED geometryFrame

\* cleanPolygonPoints and the closure check of the raw trace
ValidateLoop ==
    /\ geo.stage = "checked"
    /\ geo' = [geo EXCEPT
                 !.ring = cleanPolygonPoints(geo.polyline.points),
                 !.outcome = LoopOutcome(geo.polyline),
                 !.stage = IF LoopOutcome(geo.polyline) = "loop"
                           THEN "validated" ELSE "returned"]
    /\ UNCHANGED geometryFrame

\* polygonToCells of the cleaned ring
Rasterize ==
    /\ geo.stage = "validated"
    /\ geo' = [geo EXCEPT !.stage = "rasterized",
                          !.cells = polygonToCells(geo.ring)]
    /\ UNCHANGED geometryFrame

\* polygonToCells of the same ring in reverse order
RasterizeReversed ==
    /\ geo.stage = "rasterized"
    /\ geo' = [geo EXCEPT !.stage = "both",
                          !.reversed = polygonToCells(Reverse(geo.ring))]
    /\ UNCHANGED geometryFrame

NextGeometry ==
    \/ CheckPolyline
    \/ ValidateLoop
    \/ Rasterize
    \/ RasterizeReversed

SpecGeometry == InitGeometry /\ [][NextGeometry]_vars

-----------------------------------------------------------------------------
(* The arithmetic of pointInPolygon as the engine computes it: every Number  *)
(* is an IEEE 754 binary64 value and each of - * / + rounds its exact result *)
(* to 53 significant bits, ties to even.  A natural number is the sequence   *)
(* of its digits in base 2^13, lowest first, without leading zeros; a value  *)
(* is (-1)^neg * mant * 2^exp with an odd mant, or zero with mant = <<>>.    *)
(* Overflow, underflow and NaN do not arise for coordinates in metres.       *)

SIGNIFICAND_BITS == 53
DIGIT_BITS == 13
BASE == 8192

DigitAt(n, i) == IF i >= 1 /\ i <= Len(n) THEN n[i] ELSE 0

TrimDigits(n) ==
    LET used == {i \in 1..Len(n) : n[i] # 0}
    IN  IF used = {} THEN <<>> ELSE SubSeq(n, 1, Max(used))

\* the digits of the sums or products d[i] + carry, carried over
RECURSIVE Carry(_, _, _)
Carry(d, i, carry) ==
    IF i > Len(d) THEN (IF carry = 0 THEN <<>> ELSE Carry(<<carry>>, 1, 0))
    ELSE <<(d[i] + carry) % BASE>> \o Carry(d, i + 1, (d[i] + carry) \div BASE)

AddDigits(a, b) ==
    Carry([i \in 1..Max({Len(a), Len(b)}) |-> DigitAt(a, i) + DigitAt(b, i)], 1, 0)

\* a - b for a >= b
SubDigits(a, b) ==
    LET RECURSIVE Borrow(_, _)
        Borrow(i, borrow) ==
            IF i > Len(a) THEN <<>>
            ELSE LET diff == a[i] - DigitAt(b, i) - borrow
                 IN  <<(diff + BASE) % BASE>>
                     \o Borrow(i + 1, IF diff < 0 THEN 1 ELSE 0)
    IN  TrimDigits(Borrow(1, 0))

\* -1, 0 or 1 as a is below, equal to or above b
CompareDigits(a, b) ==
    IF Len(a) # Len(b) THEN (IF Len(a) < Len(b) THEN -1 ELSE 1)
    ELSE LET differ == {i \in 1..Len(a) : a[i] # b[i]}
         IN  IF differ = {} THEN 0
             ELSE IF a[Max(differ)] < b[Max(differ)] THEN -1 ELSE 1

\* n * k for a natural k up to BASE
TimesSmall(n, k) == TrimDigits(Carry([i \in 1..Len(n) |-> n[i] * k], 1, 0))

\* a * b, for a of 5 digits at most: a column holds 5 products below 2^26
MulDigits(a, b) ==
    IF a = <<>> \/ b = <<>> THEN <<>>
    ELSE LET RECURSIVE column(_, _)
             column(k, i) ==
                 IF i = 0 THEN 0
                 ELSE (a[i] * DigitAt(b, k + 1 - i)) + column(k, i - 1)
         IN  TrimDigits(Carry([k \in 1..(Len(a) + Len(b)) |-> column(k, Len(a))],
                              1, 0))

\* n * 2^k
ShiftLeft(n, k) ==
    IF n = <<>> THEN <<>>
    ELSE [i \in 1..(k \div DIGIT_BITS) |-> 0] \o TimesSmall(n, 2^(k % DIGIT_BITS))

\* n \div 2^k
ShiftRight(n, k) ==
    LET whole == k \div DIGIT_BITS
        low == 2^(k % DIGIT_BITS)
        m == IF whole >= Len(n) THEN <<>> ELSE SubSeq(n, whole + 1, Len(n))
    IN  TrimDigits([i \in 1..Len(m) |->
                      (m[i] \div low) + ((DigitAt(m, i + 1) % low) * (BASE \div low))])

\* the number of bits of a natural number
BitsOf(n) ==
    IF n = <<>> THEN 0
    ELSE (DIGIT_BITS * (Len(n) - 1)) + Min({r \in 0..DIGIT_BITS : n[Len(n)] < 2^r})

\* the number of zero bits at the low end of a natural number other than 0
LowZeros(n) ==
    LET first == Min({i \in 1..Len(n) : n[i] # 0})
    IN  (DIGIT_BITS * (first - 1))
        + Max({r \in 0..DIGIT_BITS : n[first] % (2^r) = 0})

RECURSIVE NatDigits(_)
NatDigits(n) == IF n = 0 THEN <<>> ELSE <<n % BASE>> \o NatDigits(n \div BASE)

\* long division of n by d from the highest digit of n down: quotient and
\* rest; the rest stays below d
DivDigits(n, d) ==
    LET \* the greatest digit q in lo..hi with q * d <= r
        RECURSIVE QuotientDigit(_, _, _)
        QuotientDigit(r, lo, hi) ==
            IF lo = hi THEN lo
            ELSE LET mid == (lo + hi + 1) \div 2
                 IN  IF CompareDigits(TimesSmall(d, mid), r) <= 0
                     THEN QuotientDigit(r, mid, hi)
                     ELSE QuotientDigit(r, lo, mid - 1)
        RECURSIVE DivFrom(_, _, _)
        DivFrom(i, rest, quot) ==
            IF i = 0 THEN [quot |-> TrimDigits(quot), rest |-> rest]
            ELSE LET r == TrimDigits(<<n[i]>> \o rest)
                     q == QuotientDigit(r, 0, BASE - 1)
                     next == SubDigits(r, TimesSmall(d, q))
                 IN  IF CompareDigits(next, d) < 0
                     THEN DivFrom(i - 1, next, <<q>> \o quot)
                     ELSE [quot |-> <<>>, rest |-> next]   \* not reached
    IN  DivFrom(Len(n), <<>>, <<>>)

\* the value with its mantissa made odd; zero has no mantissa
Odd64(neg, mant, exp) ==
    IF mant = <<>> THEN [neg |-> FALSE, mant |-> <<>>, exp |-> 0]
    ELSE [neg |-> neg, mant |-> ShiftRight(mant, LowZeros(mant)),
          exp |-> exp + LowZeros(mant)]

\* the binary64 value nearest to (-1)^neg * mant * 2^exp (plus a little when
\* sticky), ties to even
RoundTiesToEven(neg, mant, exp, sticky) ==
    IF BitsOf(mant) <= SIGNIFICAND_BITS THEN Odd64(neg, mant, exp)
    ELSE LET drop == BitsOf(mant) - SIGNIFICAND_BITS
             withHalf == ShiftRight(mant, drop - 1)
             kept == ShiftRight(mant, drop)
             rest == sticky \/ ShiftLeft(withHalf, drop - 1) # mant
             up == withHalf[1] % 2 = 1 /\ (rest \/ kept[1] % 2 = 1)
         IN  Odd64(neg, IF up THEN AddDigits(kept, <<1>>) ELSE kept, exp + drop)

\* a + b
Add64(a, b) ==
    LET e == Min({a.exp, b.exp})
        ma == ShiftLeft(a.mant, a.exp - e)
        mb == ShiftLeft(b.mant, b.exp - e)
    IN  IF a.neg = b.neg
        THEN RoundTiesToEven(a.neg, AddDigits(ma, mb), e, FALSE)
        ELSE IF CompareDigits(ma, mb) >= 0
        THEN RoundTiesToEven(a.neg, SubDigits(ma, mb), e, FALSE)
        ELSE RoundTiesToEven(b.neg, SubDigits(mb, ma), e, FALSE)

\* a - b
Sub64(a, b) == Add64(a, [b EXCEPT !.neg = ~ b.neg])

\* a * b
Mul64(a, b) ==
    RoundTiesToEven(a.neg # b.neg, MulDigits(a.mant, b.mant), a.exp + b.exp, FALSE)

\* a / b for b other than zero: the quotient is taken to 56 bits or more and
\* the rest of the division is the sticky bit
Div64(a, b) ==
    IF a.mant = <<>> THEN a
    ELSE LET k == Max({0, BitsOf(b.mant) + SIGNIFICAND_BITS + 3 - BitsOf(a.mant)})
             qr == DivDigits(ShiftLeft(a.mant, k), b.mant)
         IN  RoundTiesToEven(a.neg # b.neg, qr.quot, a.exp - k - b.exp,
                             qr.rest # <<>>)

\* a < b
Less64(a, b) ==
    LET e == Min({a.exp, b.exp})
        cmp == CompareDigits(ShiftLeft(a.mant, a.exp - e),
                             ShiftLeft(b.mant, b.exp - e))
    IN  IF a.mant = <<>> /\ b.mant = <<>> THEN FALSE
        ELSE IF a.mant = <<>> THEN ~ b.neg
        ELSE IF b.mant = <<>> THEN a.neg
        ELSE IF a.neg # b.neg THEN a.neg
        ELSE IF a.neg THEN cmp > 0 ELSE cmp < 0

\* an integer as a Number
Int64(n) == Odd64(n < 0, NatDigits(IF n < 0 THEN -n ELSE n), 0)

\* Math.floor of a Number below 2^31 in size, as an integer
Floor64(a) ==
    LET valueOf(n) == DigitAt(n, 1) + (BASE * DigitAt(n, 2))
                  + (BASE * BASE * DigitAt(n, 3))
    IN  IF a.exp >= 0
        THEN (IF a.neg THEN -1 ELSE 1) * valueOf(ShiftLeft(a.mant, a.exp))
        ELSE LET whole == valueOf(ShiftRight(a.mant, -a.exp))
             IN  IF a.neg THEN -(whole + 1) ELSE whole   \* the mantissa is odd

\* the Number m + f / 2^31 for a natural m and -2^31 < f < 2^31
FRACTION_BITS == 31

Metres(m, f) ==
    LET whole == IF f < 0 THEN m - 1 ELSE m
        part == IF f < 0 THEN (2147483647 + f) + 1 ELSE f
    IN  RoundTiesToEven(FALSE,
                        AddDigits(ShiftLeft(NatDigits(whole), FRACTION_BITS),
                                  NatDigits(part)),
                        -FRACTION_BITS, FALSE)

-----------------------------------------------------------------------------
(* The rasterizer on projected rings whose coordinates are not whole metres  *)

\* pointInPolygon with the arithmetic of Numbers; the polygon is a sequence
\* of [x, y] and the division is reached only when the edge straddles py
pointInPolygon64(px, py, polygon) ==
    LET n == Len(polygon)
        Prev(i) == IF i = 1 THEN n ELSE i - 1
        Intersect(i) ==
            LET xi == polygon[i].x
                yi == polygon[i].y
                xj == polygon[Prev(i)].x
                yj == polygon[Prev(i)].y
            IN  /\ Less64(py, yi) # Less64(py, yj)
                /\ Less64(px, Add64(Div64(Mul64(Sub64(xj, xi), Sub64(py, yi)),
                                          Sub64(yj, yi)),
                                    xi))
    IN  Cardinality({i \in 1..n : Intersect(i)}) % 2 = 1

\* polygonToCells from the projected ring on: the ring is closed, so the
\* distance between its ends is 0, and it holds 4 points or more
polygonToCells64(polygon) ==
    LET xs == {polygon[k].x : k \in 1..Len(polygon)}
        ys == {polygon[k].y : k \in 1..Len(polygon)}
        Least(S) == CHOOSE m \in S : \A e \in S : ~ Less64(e, m)
        Greatest(S) == CHOOSE m \in S : \A e \in S : ~ Less64(m, e)
        mercatorToCell64(v) == Floor64(Div64(v, Int64(CELL_SIZE_METERS)))
        cellXMin == mercatorToCell64(Least(xs))
        cellXMax == mercatorToCell64(Greatest(xs))
        cellYMin == mercatorToCell64(Least(ys))
        cellYMax == mercatorToCell64(Greatest(ys))
        h == cellYMax - cellYMin + 1
        w == cellXMax - cellXMin + 1
        candidates == [k \in 1..(w * h) |->
                          Cell(cellXMin + ((k - 1) \div h),
                               cellYMin + ((k - 1) % h))]
        Inside(c) ==
            pointInPolygon64(
                Int64((c.cellX * CELL_SIZE_METERS) + (CELL_SIZE_METERS \div 2)),
                Int64((c.cellY * CELL_SIZE_METERS) + (CELL_SIZE_METERS \div 2)),
                polygon)
    IN  SelectSeq(candidates, Inside)

\* the fractions, in units of 2^-31 m, by which the projection leaves the
\* corners of the ring off the whole metre
MaxUlps == 3

\* triangles near 63.93 E 35.11 N with corners at 50 m steps in x and a few
\* units of 2^-31 m off the cell centres in y, closed on their first corner
ProjectedRings ==
    { << <<<<7116825, 0>>, <<4178325, a>>>>,
         <<<<7116775, 0>>, <<4178275, b>>>>,
         <<<<7116825, 0>>, <<4178375, c>>>>,
         <<<<7116825, 0>>, <<4178325, a>>>> >> :
           a \in {-2, 0}, b \in (-MaxUlps)..MaxUlps, c \in {-4, 0, 2} }

\* the projected points: each coordinate is <<m, f>> for m + f / 2^31 metres
MercatorPolygon(ring) ==
    [k \in 1..Len(ring) |-> [x |-> Metres(ring[k][1][1], ring[k][1][2]),
                             y |-> Metres(ring[k][2][1], ring[k][2][2])]]

InitBinary64 ==
    /\ cells = <<>>
    /\ claims = <<>>
    /\ notifications = <<>>
    /\ loopCache = <<>>
    /\ inv = [p \in Procs |-> Idle]
    /\ clock = 0
    /\ runs = 0
    /\ cellVer = [c \in CellIds |-> 0]
    /\ idem = NoSubmission
    /\ req = NoRequest
    /\ geo \in {[stage |-> "projected", ring |-> r, cells |-> <<>>,
                 reversed |-> <<>>] : r \in ProjectedRings}

\* polygonToCells of the ring
RasterizeProjected ==
    /\ geo.stage = "projected"
    /\ geo' = [geo EXCEPT !.stage = "rasterized",
                          !.cells = polygonToCells64(MercatorPolygon(geo.ring))]
    /\ UNCHANGED geometryFrame

\* polygonToCells of the same ring in reverse order
RasterizeProjectedReversed ==
    /\ geo.stage = "rasterized"
    /\ geo' = [geo EXCEPT
                 !.stage = "both",
                 !.reversed = polygonToCells64(MercatorPolygon(Reverse(geo.ring)))]
    /\ UNCHANGED geometryFrame

NextBinary64 ==
    \/ RasterizeProjected
    \/ RasterizeProjectedReversed

SpecBinary64 == InitBinary64 /\ [][NextBinary64]_vars

-----------------------------------------------------------------------------
(* GET /api/territory: the cells of a bounding box as one user may see them, *)
(* asked between the applyLoopClaims calls of requests served one at a time  *)

\* req.query.bbox: absent, a string that does not parse to four numbers, or
\* the corners <<minX, minY, maxX, maxY>> (in projected metres, as the traces)
BboxParams ==
    {[given |-> "absent", corners |-> <<>>],
     [given |-> "unparsable", corners |-> <<>>]}
    \cup {[given |-> "numbers", corners |-> c] :
             c \in {<<0, 0, 49, 99>>, <<0, 0, 49, 49>>, <<49, 99, 0, 0>>,
                    <<60, 0, 100, 40>>}}

\* req.query.view as sent
ViewParams == {"friends", "everyone", "absent"}

bboxToCellRange(bbox) ==
    [cellXMin |-> mercatorToCell(Min({bbox[1], bbox[3]})),
     cellXMax |-> mercatorToCell(Max({bbox[1], bbox[3]})),
     cellYMin |-> mercatorToCell(Min({bbox[2], bbox[4]})),
     cellYMax |-> mercatorToCell(Max({bbox[2], bbox[4]}))]

\* the corners of the cell; mercatorToLngLat is not modelled
cellToGeoJSONRing(cellX, cellY) ==
    LET x0 == cellX * CELL_SIZE_METERS
        y0 == cellY * CELL_SIZE_METERS
        x1 == (cellX + 1) * CELL_SIZE_METERS
        y1 == (cellY + 1) * CELL_SIZE_METERS
    IN  <<<<x0, y0>>, <<x1, y0>>, <<x1, y1>>, <<x0, y1>>, <<x0, y0>>>>

\* a payload that names the owner of every cell
cellPayloadNamingOwner(c, myId, view, friendIds, friendList) ==
    <<[cellId |-> c.cellId, cellX |-> c.cellX, cellY |-> c.cellY,
       ownerType |-> IF c.ownerUserId = myId THEN "me" ELSE "other",
       colorKey |-> "other",
       coordinates |-> cellToGeoJSONRing(c.cellX, c.cellY),
       friendNickname |-> Nickname(c.ownerUserId)]>>

\* one round of the loop over the cells read: <<>> when the cell is left
\* out, else <<cellPayload>>
cellPayload(c, myId, view, friendIds, friendList) ==
    LET ownerType == IF c.ownerUserId = myId THEN "me"
                     ELSE IF c.ownerUserId \in friendIds THEN "friend"
                     ELSE "other"
        at == {i \in 1..Len(friendList) : friendList[i].id = c.ownerUserId}
        colorKey == IF ownerType = "me" THEN "me"
                    ELSE IF ownerType = "friend"
                    THEN "friend-" \o NatToString(IF at = {} THEN 0 ELSE Min(at) - 1)
                    ELSE "other"
        payload == [cellId |-> c.cellId, cellX |-> c.cellX, cellY |-> c.cellY,
                    ownerType |-> ownerType, colorKey |-> colorKey,
                    coordinates |-> cellToGeoJSONRing(c.cellX, c.cellY)]
    IN  IF view = "friends" /\ ownerType = "other" THEN <<>>
        ELSE IF view = "friends" /\ ownerType = "friend"
        THEN <<[f \in DOMAIN payload \cup {"friendNickname"} |->
                  IF f = "friendNickname"
                  THEN (IF at = {} THEN NoUser ELSE friendList[Min(at)].nickname)
                  ELSE payload[f]]>>
        ELSE <<payload>>

\* the handler up to its first await: the query is validated
BeginTerritory(user, viewParam, bboxParam) ==
    /\ req.phase = "none"
    /\ inv[1].pc = "idle"
    /\ req' = IF bboxParam.given \in {"absent", "unparsable"}
              THEN [phase |-> "responded", kind |-> "territory", user |-> user,
                    status |-> 400]
              ELSE [phase |-> "friendIds", kind |-> "territory", user |-> user,
                    view |-> IF viewParam = "friends" THEN "friends" ELSE "everyone",
                    range |-> bboxToCellRange(bboxParam.corners)]
    /\ UNCHANGED <<cells, claims, notifications, loopCache, inv, clock, runs,
                   cellVer, idem, geo>>

\* prisma.friendship.findMany({ where: { userId } }) resolves
ReadFriendIds ==
    /\ req.phase = "friendIds"
    /\ req' = [f \in DOMAIN req \cup {"friendIds"} |->
                 IF f = "friendIds"
                 THEN {u \in Users : <<req.user, u>> \in Friendships}
                 ELSE IF f = "phase" THEN "friendList" ELSE req[f]]
    /\ UNCHANGED <<cells, claims, notifications, loopCache, inv, clock, runs,
                   cellVer, idem, geo>>

\* prisma.user.findMany({ where: { id: { in: friendIds } } }) resolves: the
\* rows come in the order of their ids
ReadFriendList ==
    LET isFriendId(u) == u \in req.friendIds
    IN  /\ req.phase = "friendList"
        /\ req' = [f \in DOMAIN req \cup {"friendList"} |->
                     IF f = "friendList"
                     THEN [k \in 1..Len(SelectSeq(<<"u1", "u2", "u3">>, isFriendId)) |->
                             [id |-> SelectSeq(<<"u1", "u2", "u3">>, isFriendId)[k],
                              nickname |->
                                  Nickname(SelectSeq(<<"u1", "u2", "u3">>, isFriendId)[k])]]
                     ELSE IF f = "phase" THEN "cells" ELSE req[f]]
        /\ UNCHANGED <<cells, claims, notifications, loopCache, inv, clock, runs,
                       cellVer, idem, geo>>

\* prisma.territoryCell.findMany resolves with the rows of the range (taken
\* in the order of the range), the payloads are built and the response sent
ReadCells ==
    LET r == req.range
        h == r.cellYMax - r.cellYMin + 1
        w == r.cellXMax - r.cellXMin + 1
        keys == [k \in 1..(w * h) |-> getCellId(r.cellXMin + ((k - 1) \div h),
                                                r.cellYMin + ((k - 1) % h))]
        stored(id) == id \in DOMAIN cells
        found == SelectSeq(keys, stored)
        RECURSIVE out(_)
        out(n) == IF n = 0 THEN <<>>
                  ELSE out(n - 1) \o cellPayload(cells[found[n]], req.user, req.view,
                                                 req.friendIds, req.friendList)
    IN  /\ req.phase = "cells"
        /\ req' = [phase |-> "responded", kind |-> "territory", user |-> req.user,
                   view |-> req.view, status |-> 200, cells |-> out(Len(found)),
                   cellSizeMeters |-> CELL_SIZE_METERS]
        /\ UNCHANGED <<cells, claims, notifications, loopCache, inv, clock, runs,
                       cellVer, idem, geo>>

NextTerritory ==
    \/ \E a \in Activities : SeqStart(a)
    \/ UpdateActivity(1)
    \/ FindUnique(1)
    \/ CreateCell(1)
    \/ CreateClaim(1)
    \/ RefreshCell(1)
    \/ RefreshClaim(1)
    \/ TransferCell(1)
    \/ TransferClaim(1)
    \/ Notify(1)
    \/ Return(1)
    \/ Tick
    \/ \E user \in Users, viewParam \in ViewParams, bboxParam \in BboxParams :
           BeginTerritory(user, viewParam, bboxParam)
    \/ ReadFriendIds
    \/ ReadFriendList
    \/ ReadCells

SpecTerritory == Init /\ [][NextTerritory]_vars

-----------------------------------------------------------------------------
(* POST /api/strava/sync and POST /api/strava/auto-sync of one user, served  *)
(* concurrently: each handler runs runIncrementalSync, whose applyLoopClaims *)
(* calls take the free request slot. Here req holds the user's               *)
(* strava_accounts row (lastSyncAt, lastAutoSyncAt, absent as <<>>), the     *)
(* stravaActivityId values of the activities table, and one record per       *)
(* handler. The access token is taken as not expired                         *)

AUTO_SYNC_MINUTES == 60

\* no request is being served by the handler
NoSync ==
    [pc |-> "none", kind |-> "none", now |-> 0, list |-> <<>>, slot |-> 0,
     added |-> 0,
     ran |-> FALSE,     \* history: runIncrementalSync was entered
     skipped |-> {},    \* history: the activities found stored
     response |-> NoResponse]

InitSync ==
    /\ cells = <<>>
    /\ claims = <<>>
    /\ notifications = <<>>
    /\ loopCache = <<>>
    /\ inv = [p \in Procs |-> Idle]
    /\ clock = 0
    /\ runs = 0
    /\ cellVer = [c \in CellIds |-> 0]
    /\ idem = NoSubmission
    /\ req = [phase |-> "serving", lastSyncAt |-> <<>>, lastAutoSyncAt |-> <<>>,
              activities |-> {},
              applied |-> <<>>,  \* history: the calls of applyLoopClaims
              h |-> [p \in Procs |-> NoSync]]
    /\ geo = NoGeometry

\* the handler record when the for loop of runIncrementalSync goes on with list
SyncLoop(r, list) ==
    [r EXCEPT !.list = list, !.slot = 0,
              !.pc = IF list = <<>> THEN "updateSync" ELSE "findUnique"]

\* a request arrives: requireUser loads the user with the strava_accounts
\* row, the handler samples now, and auto-sync answers skipped/throttle when
\* the loaded lastAutoSyncAt is less than AUTO_SYNC_MINUTES old; otherwise
\* runIncrementalSync samples its now and issues the fetch of the list
SyncArrive(h, kind) ==
    /\ req.h[h].pc = "none"
    /\ \A g \in Procs : g < h => req.h[g].pc # "none"  \* handlers are interchangeable
    /\ LET lastAuto == req.lastAutoSyncAt
           throttled == /\ kind = "auto"
                        /\ lastAuto # <<>>
                        /\ (clock - lastAuto[1]) * 60 < AUTO_SYNC_MINUTES
       IN  req' = [req EXCEPT !.h[h] =
                     IF throttled
                     THEN [NoSync EXCEPT !.pc = "responded", !.kind = kind,
                                         !.now = clock,
                                         !.response = [status |-> 200,
                                                       skipped |-> TRUE,
                                                       reason |-> "throttle",
                                                       lastAutoSyncAt |-> lastAuto[1]]]
                     ELSE [NoSync EXCEPT !.pc = "fetch", !.kind = kind,
                                         !.now = clock, !.ran = TRUE]]
    /\ UNCHANGED <<cells, claims, notifications, loopCache, inv, clock, runs,
                   cellVer, idem, geo>>

\* the lists Strava answers with: two loops of the user that share a cell
\* (a1, then a7), or fewer
SyncLists == {<<>>, <<"a1">>, <<"a7">>, <<"a1", "a7">>}

\* Strava answers with the list of the user's activities
FetchList(h, list) ==
    /\ req.h[h].pc = "fetch"
    /\ req' = [req EXCEPT !.h[h] = SyncLoop(@, list)]
    /\ UNCHANGED <<cells, claims, notifications, loopCache, inv, clock, runs,
                   cellVer, idem, geo>>

\* activity.findUnique by stravaActivityId answers: a stored activity is
\* skipped, for another the create is issued
FindActivity(h) ==
    /\ req.h[h].pc = "findUnique"
    /\ req' = [req EXCEPT !.h[h] =
                 IF Head(@.list) \in req.activities
                 THEN SyncLoop([@ EXCEPT !.skipped = @ \cup {Head(req.h[h].list)}],
                               Tail(@.list))
                 ELSE [@ EXCEPT !.pc = "create"]]
    /\ UNCHANGED <<cells, claims, notifications, loopCache, inv, clock, runs,
                   cellVer, idem, geo>>

\* activity.create stores a second row with the stravaActivityId
CreateActivityAgain(h) ==
    LET a == Head(req.h[h].list)
    IN  /\ req.h[h].pc = "create"
        /\ \E p \in Procs :
              /\ StartCall(p, a)
              /\ req' = [req EXCEPT !.activities = @ \cup {a},
                                    !.applied = Append(@, a),
                                    !.h[h] = [@ EXCEPT !.pc = "apply", !.slot = p,
                                                       !.added = @ + 1]]
        /\ UNCHANGED idem

\* activity.create answers: the row is stored and applyLoopClaims is called
\* for it, or the unique index on stravaActivityId rejects it and
\* runIncrementalSync throws to the handler's catch
CreateActivity(h) ==
    LET a == Head(req.h[h].list)
    IN  /\ req.h[h].pc = "create"
        /\ IF a \in req.activities
           THEN /\ req' = [req EXCEPT !.h[h] = [@ EXCEPT !.pc = "responded",
                                                         !.response = ErrorResponse]]
                /\ UNCHANGED <<cells, claims, notifications, loopCache, inv, clock,
                               runs, cellVer, idem, geo>>
           ELSE /\ \E p \in Procs :
                      /\ StartCall(p, a)
                      /\ req' = [req EXCEPT !.activities = @ \cup {a},
                                            !.applied = Append(@, a),
                                            !.h[h] = [@ EXCEPT !.pc = "apply",
                                                               !.slot = p,
                                                               !.added = @ + 1]]
                /\ UNCHANGED idem

\* applyLoopClaims returned or threw: the result is taken or the error is
\* logged, and the loop goes on
ClaimsSettled(h) ==
    /\ req.h[h].pc = "apply"
    /\ inv[req.h[h].slot].pc \in {"done", "failed"}
    /\ inv' = [inv EXCEPT ![req.h[h].slot] = Idle]
    /\ req' = [req EXCEPT !.h[h] = SyncLoop(@, Tail(@.list))]
    /\ UNCHANGED <<cells, claims, notifications, loopCache, clock, runs, cellVer,
                   idem, geo>>

\* stravaAccount.update({ lastSyncAt: now }) at the end of runIncrementalSync;
\* the sync handler answers, the auto-sync handler issues its own update
UpdateLastSyncAt(h) ==
    /\ req.h[h].pc = "updateSync"
    /\ req' = [req EXCEPT !.lastSyncAt = <<req.h[h].now>>,
                          !.h[h] = IF @.kind = "auto"
                                   THEN [@ EXCEPT !.pc = "updateAuto"]
                                   ELSE [@ EXCEPT !.pc = "responded",
                                                  !.response = [status |-> 200,
                                                                ok |-> TRUE,
                                                                added |-> req.h[h].added]]]
    /\ UNCHANGED <<cells, claims, notifications, loopCache, inv, clock, runs,
                   cellVer, idem, geo>>

\* stravaAccount.update({ lastAutoSyncAt: now }), and the answer
UpdateLastAutoSyncAt(h) ==
    /\ req.h[h].pc = "updateAuto"
    /\ req' = [req EXCEPT !.lastAutoSyncAt = <<req.h[h].now>>,
                          !.h[h] = [@ EXCEPT !.pc = "responded",
                                             !.response = [status |-> 200,
                                                           skipped |-> FALSE,
                                                           added |-> req.h[h].added,
                                                           lastAutoSyncAt |-> req.h[h].now]]]
    /\ UNCHANGED <<cells, claims, notifications, loopCache, inv, clock, runs,
                   cellVer, idem, geo>>

\* the fetch or a store call of the handler rejects: the catch answers 500
SyncThrows(h) ==
    /\ req.h[h].pc \in {"fetch", "findUnique", "create", "updateSync", "updateAuto"}
    /\ req' = [req EXCEPT !.h[h] = [@ EXCEPT !.pc = "responded",
                                             !.response = ErrorResponse]]
    /\ UNCHANGED <<cells, claims, notifications, loopCache, inv, clock, runs,
                   cellVer, idem, geo>>

NextSync ==
    \/ \E h \in Procs, kind \in {"sync", "auto"} : SyncArrive(h, kind)
    \/ \E h \in Procs, list \in SyncLists : FetchList(h, list)
    \/ \E h \in Procs : FindActivity(h)
    \/ \E h \in Procs : CreateActivity(h)
    \/ \E h \in Procs : ClaimsSettled(h)
    \/ \E h \in Procs : UpdateLastSyncAt(h)
    \/ \E h \in Procs : UpdateLastAutoSyncAt(h)
    \/ \E h \in Procs : SyncThrows(h)
    \/ \E p \in Procs : UpdateActivity(p)
    \/ \E p \in Procs : FindUnique(p)
    \/ \E p \in Procs : CreateCell(p)
    \/ \E p \in Procs : CreateClaim(p)
    \/ \E p \in Procs : RefreshCell(p)
    \/ \E p \in Procs : RefreshClaim(p)
    \/ \E p \in Procs : StorageError(p)
    \/ Tick

SpecSync == InitSync /\ [][NextSync]_vars

-----------------------------------------------------------------------------
(* Vocabulary of the properties *)

\* the cell ids an invocation record reports in any of its three lists
ReportedIds(r) ==
    Range(r.gainedCellIds) \cup Range(r.lostCellIds) \cup Range(r.defendedCellIds)

\* the id of the cell slot p is at
Cur(p) == CurrentCell(p).cellId

\* this step is slot p's findUnique resolving (not its rejection)
ReadStep(p) ==
    /\ inv[p].pc = "findUnique"
    /\ inv'[p] # inv[p]
    /\ inv'[p].pc # "failed"

\* this step takes slot p from one place of the code to another
Moves(p, from, to) == inv[p].pc = from /\ inv'[p].pc = to

\* this step is slot p's territoryClaim.create resolving
ClaimStep(p) ==
    /\ inv[p].pc \in {"createClaim", "refreshClaim", "transferClaim"}
    /\ inv'[p] # inv[p]
    /\ inv'[p].pc # "failed"

\* the three lists of slot p are the same before and after the step
ListsUnchanged(p) ==
    /\ inv'[p].gainedCellIds = inv[p].gainedCellIds
    /\ inv'[p].lostCellIds = inv[p].lostCellIds
    /\ inv'[p].defendedCellIds = inv[p].defendedCellIds

\* the rows of the log for one cell, in insertion order
RECURSIVE ClaimsOfCell(_, _)
ClaimsOfCell(log, cellId) ==
    IF log = <<>> THEN <<>>
    ELSE IF log[1].cellId = cellId
         THEN <<log[1]>> \o ClaimsOfCell(Tail(log), cellId)
         ELSE ClaimsOfCell(Tail(log), cellId)

\* no invocation is in flight
Quiescent == \A p \in Procs : inv[p].pc \in {"idle", "done", "failed"}

-----------------------------------------------------------------------------
(* The Claim Resolver under concurrent claimers *)

\* C1: the read-decide-write sequence is atomic per cell: two invocations by
\* different users never both record a LOOP_CAPTURE taken from the same
\* previous owner off the same read of the cell (the same version of its row).
C1_OneCapturePerRead ==
    \A m, n \in 1..Len(claims) :
        ( /\ m < n
          /\ claims[m].cellId = claims[n].cellId
          /\ claims[m].reason = "LOOP_CAPTURE"
          /\ claims[n].reason = "LOOP_CAPTURE"
          /\ claims[m].previousOwnerUserId # NoUser
          /\ claims[m].previousOwnerUserId = claims[n].previousOwnerUserId
          /\ claims[m].claimerUserId # claims[n].claimerUserId )
        => claims[m].basis # claims[n].basis

\* C2: a cell's owner changes to a different user only in a transfer whose
\* capturer finds the stored lock expired at the moment of the write
\* (lockedUntil <= its now), so never before the stored lockedUntil is reached.
C2_OwnerChangesOnlyAfterExpiry ==
    [][\A c \in DOMAIN cells :
          cells'[c].ownerUserId # cells[c].ownerUserId
          => /\ \E p \in Procs :
                  /\ Moves(p, "transfer", "transferClaim")
                  /\ Cur(p) = c
                  /\ cells'[c].ownerUserId = inv[p].userId
                  /\ cells[c].lockedUntil <= inv[p].now
             /\ cells[c].lockedUntil <= clock]_vars

\* C3: reading a cell owned by another user whose lockedUntil > now is a
\* skip: the store is left as it is (no column of the cell changes, no claim
\* row is appended), the invocation moves on to the next cell, and the cell
\* is in none of its lists; the lists only ever grow by the cell a claim
\* was just appended for.
C3_SkipLeavesCellUntouched ==
    [][\A p \in Procs :
          /\ ( ReadStep(p)
               /\ Cur(p) \in DOMAIN cells
               /\ cells[Cur(p)].ownerUserId # inv[p].userId
               /\ cells[Cur(p)].lockedUntil > inv[p].now )
             => /\ cells' = cells
                /\ claims' = claims
                /\ cellVer' = cellVer
                /\ ListsUnchanged(p)
                /\ inv'[p].claimsCreated = inv[p].claimsCreated
                /\ inv'[p].cellsCreated = inv[p].cellsCreated
                /\ inv'[p].lostByPreviousOwner = inv[p].lostByPreviousOwner
                /\ inv'[p].i = inv[p].i + 1
                /\ Cur(p) \notin ReportedIds(inv'[p])
          /\ \A id \in ReportedIds(inv'[p]) \ ReportedIds(inv[p]) :
                ClaimStep(p) /\ id = Cur(p)]_vars

\* C3 witness: an invocation of u1 over 0:0 and 0:1 has returned, having
\* skipped 0:0, which another user holds under a lock later than its now.
C3_Witness ==
    \E p \in Procs :
        /\ inv[p].pc = "done"
        /\ inv[p].activity = "a1"
        /\ "0:0" \in DOMAIN cells
        /\ cells["0:0"].ownerUserId # inv[p].userId
        /\ cells["0:0"].lockedUntil > inv[p].now
        /\ "0:0" \notin ReportedIds(inv[p])
        /\ inv[p].gainedCellIds = <<"0:1">>

\* C4: a cell read as having no record goes to the create branch; the create
\* that takes effect inserts owner = claimer, lockedUntil = now + 12h
\* (lastClaimedAt = now, lastActivityId = the activity) and touches no other
\* cell; the claim step that follows appends one LOOP_CAPTURE row with
\* previous owner null and reports the cell as gained, not lost, not defended.
C4_CreateTransition ==
    [][\A p \in Procs :
          /\ (ReadStep(p) /\ Cur(p) \notin DOMAIN cells)
             => /\ inv'[p].pc = "create"
                /\ inv'[p].i = inv[p].i
          /\ (inv[p].pc = "create" /\ inv'[p] # inv[p] /\ Cur(p) \notin DOMAIN cells)
             => \/ inv'[p].pc = "failed" /\ cells' = cells
                \/ /\ inv'[p].pc = "createClaim"
                   /\ DOMAIN cells' = DOMAIN cells \cup {Cur(p)}
                   /\ \A c \in DOMAIN cells : cells'[c] = cells[c]
                   /\ cells'[Cur(p)].cellId = Cur(p)
                   /\ cells'[Cur(p)].ownerUserId = inv[p].userId
                   /\ cells'[Cur(p)].lockedUntil = inv[p].now + COOLDOWN_HOURS
                   /\ cells'[Cur(p)].lastClaimedAt = inv[p].now
                   /\ cells'[Cur(p)].lastActivityId = inv[p].activity
                   /\ inv'[p].cellsCreated = inv[p].cellsCreated + 1
          /\ (inv[p].pc = "createClaim" /\ ClaimStep(p))
             => /\ Len(claims') = Len(claims) + 1
                /\ SubSeq(claims', 1, Len(claims)) = claims
                /\ claims'[Len(claims')].cellId = Cur(p)
                /\ claims'[Len(claims')].claimerUserId = inv[p].userId
                /\ claims'[Len(claims')].previousOwnerUserId = NoUser
                /\ claims'[Len(claims')].reason = "LOOP_CAPTURE"
                /\ claims'[Len(claims')].activityId = inv[p].activity
                /\ inv'[p].gainedCellIds = Append(inv[p].gainedCellIds, Cur(p))
                /\ inv'[p].lostCellIds = inv[p].lostCellIds
                /\ inv'[p].defendedCellIds = inv[p].defendedCellIds]_vars

\* C4 witness: an invocation has returned after creating a cell that it owns
\* under the lock now + 12h and reports as gained.
C4_Witness ==
    \E p \in Procs :
        /\ inv[p].pc = "done"
        /\ inv[p].cellsCreated = 1
        /\ inv[p].gainedCellIds = <<"0:0">>
        /\ inv[p].lostCellIds = <<>>
        /\ cells["0:0"].ownerUserId = inv[p].userId
        /\ cells["0:0"].lockedUntil = inv[p].now + COOLDOWN_HOURS
        /\ claims[Len(claims)].previousOwnerUserId = NoUser

\* C5: a cell read as owned by another user V with lockedUntil <= now (the
\* boundary lockedUntil = now included) goes to the transfer branch; the
\* update sets owner = claimer and lockedUntil = now + 12h on that cell only;
\* the claim step appends one LOOP_CAPTURE row with previous owner V and
\* reports the cell as gained and as lost (under V).
C5_TransferTransition ==
    [][\A p \in Procs :
          /\ ( ReadStep(p)
               /\ Cur(p) \in DOMAIN cells
               /\ cells[Cur(p)].ownerUserId # inv[p].userId
               /\ cells[Cur(p)].lockedUntil <= inv[p].now )
             => /\ inv'[p].pc = "transfer"
                /\ inv'[p].i = inv[p].i
                /\ inv'[p].existing = <<cells[Cur(p)]>>
          /\ (inv[p].pc = "transfer" /\ inv'[p] # inv[p])
             => \/ inv'[p].pc = "failed" /\ cells' = cells
                \/ /\ inv'[p].pc = "transferClaim"
                   /\ inv'[p].existing = inv[p].existing
                   /\ DOMAIN cells' = DOMAIN cells
                   /\ \A c \in DOMAIN cells \ {Cur(p)} : cells'[c] = cells[c]
                   /\ cells'[Cur(p)].ownerUserId = inv[p].userId
                   /\ cells'[Cur(p)].lockedUntil = inv[p].now + COOLDOWN_HOURS
                   /\ cells'[Cur(p)].lastClaimedAt = inv[p].now
                   /\ cells'[Cur(p)].lastActivityId = inv[p].activity
          /\ (inv[p].pc = "transferClaim" /\ ClaimStep(p))
             => /\ Len(claims') = Len(claims) + 1
                /\ SubSeq(claims', 1, Len(claims)) = claims
                /\ claims'[Len(claims')].cellId = Cur(p)
                /\ claims'[Len(claims')].claimerUserId = inv[p].userId
                /\ claims'[Len(claims')].previousOwnerUserId
                       = inv[p].existing[1].ownerUserId
                /\ claims'[Len(claims')].previousOwnerUserId # inv[p].userId
                /\ claims'[Len(claims')].reason = "LOOP_CAPTURE"
                /\ claims'[Len(claims')].activityId = inv[p].activity
                /\ inv'[p].gainedCellIds = Append(inv[p].gainedCellIds, Cur(p))
                /\ inv'[p].lostCellIds = Append(inv[p].lostCellIds, Cur(p))
                /\ inv'[p].defendedCellIds = inv[p].defendedCellIds
                /\ \E k \in 1..Len(inv'[p].lostByPreviousOwner) :
                      /\ inv'[p].lostByPreviousOwner[k].owner
                             = inv[p].existing[1].ownerUserId
                      /\ Cur(p) \in Range(inv'[p].lostByPreviousOwner[k].cellIds)]_vars

\* C5 witness: an invocation has returned after capturing 0:0 exactly at the
\* boundary (the lock it read was equal to its now) and reports it gained and lost.
C5_Witness ==
    \E p \in Procs :
        /\ inv[p].pc = "done"
        /\ inv[p].gainedCellIds = <<"0:0">>
        /\ inv[p].lostCellIds = <<"0:0">>
        /\ inv[p].now = COOLDOWN_HOURS
        /\ Len(claims) = 2
        /\ claims[1].claimerUserId = claims[2].previousOwnerUserId
        /\ claims[2].claimerUserId = inv[p].userId
        /\ cells["0:0"].ownerUserId = inv[p].userId
        /\ cells["0:0"].lastClaimedAt = COOLDOWN_HOURS

\* C6: a cell read as owned by the claimer goes to the refresh branch whatever
\* its lock; after the update the cell is owned by the claimer with
\* lockedUntil = now + 12h; the claim step appends one LOOP_DEFEND_REFRESH row
\* and reports the cell as defended, neither gained nor lost.
C6_RefreshTransition ==
    [][\A p \in Procs :
          /\ ( ReadStep(p)
               /\ Cur(p) \in DOMAIN cells
               /\ cells[Cur(p)].ownerUserId = inv[p].userId )
             => inv'[p].pc = "refresh" /\ inv'[p].i = inv[p].i
          /\ Moves(p, "refresh", "refreshClaim")
             => /\ cells'[Cur(p)].ownerUserId = inv[p].userId
                /\ cells'[Cur(p)].lockedUntil = inv[p].now + COOLDOWN_HOURS
          /\ (inv[p].pc = "refreshClaim" /\ ClaimStep(p))
             => /\ Len(claims') = Len(claims) + 1
                /\ SubSeq(claims', 1, Len(claims)) = claims
                /\ claims'[Len(claims')].cellId = Cur(p)
                /\ claims'[Len(claims')].claimerUserId = inv[p].userId
                /\ claims'[Len(claims')].reason = "LOOP_DEFEND_REFRESH"
                /\ inv'[p].defendedCellIds = Append(inv[p].defendedCellIds, Cur(p))
                /\ inv'[p].gainedCellIds = inv[p].gainedCellIds
                /\ inv'[p].lostCellIds = inv[p].lostCellIds]_vars

\* the ids of a list are pairwise different
NoDuplicates(s) == \A m, n \in 1..Len(s) : m # n => s[m] # s[n]

\* C7: every rasterized cell gets exactly one of create, refresh, transfer,
\* skip, and claim rows come one per non-skip transition: the log grows only
\* by one row at a time, appended by the invocation whose cell write just
\* completed, naming that cell, the claimer and the activity, and counted in
\* claimsCreated; territory_cells changes only in such a write, on the current
\* cell alone; an invocation that has returned visited all its cells, and its
\* claimsCreated equals the cells it created (cellsCreated), transferred
\* (lost) and refreshed (defended).
C7_OneClaimPerTransition ==
    /\ [](\A p \in Procs :
            inv[p].pc = "done" /\ ActivityRow(inv[p].activity).outcome = "loop"
            => /\ inv[p].i = Len(CellsOf(p)) + 1
               /\ inv[p].claimsCreated
                      = inv[p].cellsCreated + Len(inv[p].lostCellIds)
                            + Len(inv[p].defendedCellIds)
               /\ Len(inv[p].gainedCellIds)
                      = inv[p].cellsCreated + Len(inv[p].lostCellIds)
               /\ NoDuplicates(inv[p].gainedCellIds \o inv[p].defendedCellIds)
               /\ NoDuplicates(inv[p].lostCellIds)
               /\ ReportedIds(inv[p]) \subseteq {CellsOf(p)[n].cellId :
                                                    n \in 1..Len(CellsOf(p))})
    /\ [][/\ claims' # claims
             => \E p \in Procs :
                  /\ ClaimStep(p)
                  /\ Len(claims') = Len(claims) + 1
                  /\ SubSeq(claims', 1, Len(claims)) = claims
                  /\ claims'[Len(claims')].cellId = Cur(p)
                  /\ claims'[Len(claims')].cellX = CurrentCell(p).cellX
                  /\ claims'[Len(claims')].cellY = CurrentCell(p).cellY
                  /\ claims'[Len(claims')].claimerUserId = inv[p].userId
                  /\ claims'[Len(claims')].activityId = inv[p].activity
                  /\ claims'[Len(claims')].activityId \in Activities
                  /\ ActivityRow(inv[p].activity).userId = inv[p].userId
                  /\ inv'[p].claimsCreated = inv[p].claimsCreated + 1
          /\ cells' # cells
             => \E p \in Procs :
                  /\ \/ Moves(p, "create", "createClaim")
                     \/ Moves(p, "refresh", "refreshClaim")
                     \/ Moves(p, "transfer", "transferClaim")
                  /\ \A c \in DOMAIN cells \ {Cur(p)} : cells'[c] = cells[c]
                  /\ DOMAIN cells' = DOMAIN cells \cup {Cur(p)}
                  /\ claims' = claims
          /\ \A p \in Procs :
                /\ ClaimStep(p) => Len(claims') = Len(claims) + 1
                /\ ReadStep(p)
                   => \/ inv'[p].i = inv[p].i + 1 /\ claims' = claims
                      \/ /\ inv'[p].i = inv[p].i
                         /\ inv'[p].pc \in {"create", "refresh", "transfer"}
                /\ ( inv'[p].claimsCreated # inv[p].claimsCreated
                     /\ inv'[p].pc \notin {"idle", "failed"} )
                   => ClaimStep(p) /\ claims' # claims]_vars

\* C7 witness: an invocation over two cells has returned with two claim rows
\* of its own: one cell transferred, one refreshed.
C7_Witness ==
    \E p \in Procs :
        /\ inv[p].pc = "done"
        /\ inv[p].activity = "a1"
        /\ inv[p].claimsCreated = 2
        /\ Len(inv[p].lostCellIds) = 1
        /\ Len(inv[p].defendedCellIds) = 1
        /\ Len(claims) >= 2

\* C8: with no invocation in flight, a cell has a record exactly if the log
\* has a row for it, and the claimer of the cell's last row is its owner.
C8_LastClaimIsOwner ==
    Quiescent
    => \A c \in CellIds :
          /\ c \in DOMAIN cells <=> ClaimsOfCell(claims, c) # <<>>
          /\ c \in DOMAIN cells
             => LET rows == ClaimsOfCell(claims, c)
                IN  rows # <<>> =>
                      rows[Len(rows)].claimerUserId = cells[c].ownerUserId

\* C9: territory data only grows: every step keeps the earlier claim log as a
\* prefix of the later one, keeps every territory_cells row, and leaves each
\* row with one owner, a user, under its own key.
C9_TerritoryOnlyGrows ==
    [][/\ Len(claims') >= Len(claims)
       /\ SubSeq(claims', 1, Len(claims)) = claims
       /\ DOMAIN cells \subseteq DOMAIN cells'
       /\ \A c \in DOMAIN cells' :
             /\ cells'[c].ownerUserId \in Users
             /\ cells'[c].cellId = c]_vars

\* C9 witness: the log holds three rows, two of them for 0:0, whose record is
\* still there and has passed from its first claimer to another owner.
C9_Witness ==
    /\ Len(claims) = 3
    /\ Len(ClaimsOfCell(claims, "0:0")) >= 2
    /\ "0:0" \in DOMAIN cells
    /\ cells["0:0"].ownerUserId # ClaimsOfCell(claims, "0:0")[1].claimerUserId

\* C10: when the second of two submissions of one activity by its user has
\* returned (the first having returned before it started, nobody else
\* claiming in between), territory_cells is exactly what a single submission
\* at the second one's time leaves from the store before the first: same
\* owners, same lock expiry (that submission's now + 12h on every cell the
\* user holds in the loop); the claim log is the earlier log plus the rows of
\* the second run.
C10_IdempotentRefresh ==
    (idem.phase = "second" /\ inv[1].pc = "done")
    => /\ cells = SingleSubmission(idem.cells0, idem.activity, inv[1].now)
       /\ \A n \in 1..Len(CellsOf(1)) :
             LET c == CellsOf(1)[n].cellId
             IN  /\ c \in DOMAIN cells
                 /\ cells[c].ownerUserId = inv[1].userId
                    => cells[c].lockedUntil = inv[1].now + COOLDOWN_HOURS
                 /\ cells[c].ownerUserId # inv[1].userId
                    => /\ c \in DOMAIN idem.cells0
                       /\ cells[c] = idem.cells0[c]
       /\ Len(claims) = idem.claimsLen + inv[1].claimsCreated
       /\ inv[1].cellsCreated = 0

\* C10 witness: the second submission of a1 has returned at a later time than
\* the first; it refreshed 0:1, which the first had created, and captured
\* 0:0, which was locked by another user at the first submission.
C10_Witness ==
    /\ idem.phase = "second"
    /\ inv[1].pc = "done"
    /\ idem.activity = "a1"
    /\ inv[1].now = COOLDOWN_HOURS
    /\ "0:0" \in DOMAIN idem.cells0
    /\ "0:1" \notin DOMAIN idem.cells0
    /\ inv[1].defendedCellIds = <<"0:1">>
    /\ inv[1].gainedCellIds = <<"0:0">>
    /\ cells["0:1"].lockedUntil = 2 * COOLDOWN_HOURS

-----------------------------------------------------------------------------
(* Re-processing, batches and responses *)

\* C11: processing an activity again yields, for a cell an earlier processing
\* of that activity already claimed, only LOOP_DEFEND_REFRESH rows: never a
\* LOOP_CAPTURE, never a row that takes the cell from another owner.
C11_ReprocessingOnlyRefreshes ==
    \A m, n \in 1..Len(claims) :
        ( /\ m < n
          /\ claims[m].activityId = claims[n].activityId
          /\ claims[m].cellId = claims[n].cellId )
        => /\ claims[n].reason = "LOOP_DEFEND_REFRESH"
           /\ claims[n].previousOwnerUserId = claims[n].claimerUserId

\* the activities of a list that a request hands to applyLoopClaims: all of
\* them for a resync, those not stored before for a sync
RECURSIVE ToApply(_, _, _)
ToApply(kind, list, stored) ==
    IF list = <<>> THEN <<>>
    ELSE IF kind = "sync" /\ list[1] \in stored
         THEN ToApply(kind, Tail(list), stored)
         ELSE <<list[1]>> \o ToApply(kind, Tail(list), stored)

\* C12: in a batch, a storage error while one activity is resolved leaves
\* the cell and claim rows written so far in place and discards the
\* invocation (its remaining cells are never visited); the caller's catch
\* logs it and leaves the rest of the list queued; and when the request has
\* answered, applyLoopClaims was called for every activity of the list that
\* was due, those after a failed one included.
C12_BatchFailureIsolation ==
    /\ [][ (inv[1].pc \in StoreCallPcs /\ inv'[1].pc = "failed")
           => /\ cells' = cells
              /\ claims' = claims
              /\ req' = req
              /\ inv'[1].i = 0 ]_vars
    /\ [][ (req.phase = "loop" /\ inv[1].pc = "failed" /\ inv'[1] # inv[1])
           => /\ inv'[1] = Idle
              /\ req'.phase = "loop"
              /\ req'.list = req.list
              /\ req'.failed = Append(req.failed, inv[1].activity)
              /\ req'.response = NoResponse
              /\ cells' = cells
              /\ claims' = claims ]_vars
    /\ [](( req.phase = "responded" /\ req.response.status = 200 )
          => /\ req.applied = ToApply(req.kind, req.orig, req.stored0)
             /\ Range(req.failed) \subseteq Range(req.applied))

\* C12 witness: a sync of <<a1, a7>> has answered; a1 failed after its first
\* cell 0:0 was written (the row is kept, 0:1 was abandoned), and a7, later
\* in the list, was processed and created 0:1.
C12_Witness ==
    /\ req.phase = "responded"
    /\ req.response.status = 200
    /\ req.kind = "sync"
    /\ req.orig = <<"a1", "a7">>
    /\ req.failed = <<"a1">>
    /\ req.applied = <<"a1", "a7">>
    /\ DOMAIN cells = {"0:0", "0:1"}
    /\ cells["0:0"].lastActivityId = "a1"
    /\ cells["0:1"].lastActivityId = "a7"
    /\ req.response.gained = {"0:1"}

\* C13: the response tells a run that is no loop from a processing failure:
\* with only non-loop activities applied it is a success with empty gained
\* and lost lists, and when the territory processing of an activity failed
\* it is an explicit error, not a success payload.
C13_FailureIsExplicitError ==
    req.phase = "responded"
    => /\ ( /\ req.failed = <<>>
            /\ req.response.status = 200
            /\ \A n \in 1..Len(req.applied) :
                   ActivityRow(req.applied[n]).outcome # "loop" )
          => /\ req.response.gained = {}
             /\ req.response.lost = {}
       /\ req.failed # <<>> => req.response.status # 200

-----------------------------------------------------------------------------
(* The Loop Validator's outcomes and the loop cache *)

\* the four Territory Engine tables an invocation can write
store == <<cells, claims, notifications, loopCache>>

\* a polyline that is missing, empty or not a string, whose cleaned ring has
\* fewer than 4 points, or whose raw first and last points are more than
\* 100 m apart
ZeroResultTrace(polyline) ==
    \/ polyline.type # "string"
    \/ Len(polyline.points) < 3
    \/ Len(DropConsecutiveDuplicates(polyline.points, <<>>)) < 3
    \/ Len(cleanPolygonPoints(polyline.points)) < 4
    \/ distanceMetersOver(polyline.points[1],
                          polyline.points[Len(polyline.points)], 100)

\* C14: applyLoopClaims called for an activity with such a trace returns at
\* once and normally: it is done without a store call having been issued,
\* its three lists are empty, its counters zero and its polygon null, and
\* from the call to the return no row of cells, claims or notifications
\* and no loop cache (the only column of the activity it ever writes) changes.
C14_ZeroResultChangesNothing ==
    /\ [][ ( /\ inv[1].pc = "idle"
             /\ inv'[1].pc # "idle"
             /\ ZeroResultTrace(summaryPolyline(inv'[1].activity)) )
           => /\ inv'[1].pc = "done"
              /\ store' = store ]_vars
    /\ [][ ( /\ inv[1].pc = "done"
             /\ ZeroResultTrace(summaryPolyline(inv[1].activity)) )
           => /\ store' = store
              /\ inv'[1] \in {inv[1], Idle} ]_vars
    /\ []( ( /\ inv[1].pc # "idle"
             /\ ZeroResultTrace(summaryPolyline(inv[1].activity)) )
           => /\ inv[1].pc = "done"
              /\ inv[1].gainedCellIds = <<>>
              /\ inv[1].lostCellIds = <<>>
              /\ inv[1].defendedCellIds = <<>>
              /\ inv[1].cellsCreated = 0
              /\ inv[1].claimsCreated = 0
              /\ inv[1].loopPolygonGeojson = FALSE
              /\ inv[1].activity \notin DOMAIN loopCache )

\* C14 witness: the trace of a4, whose ends are 150 m apart, has been
\* applied for u1 on a grid where u1 and u2 hold cells; it has returned
\* nothing.
C14_Witness ==
    /\ inv[1].pc = "done"
    /\ inv[1].activity = "a4"
    /\ DOMAIN cells = {"0:0", "0:1"}
    /\ cells["0:0"].ownerUserId = "u2"
    /\ cells["0:1"].ownerUserId = "u1"
    /\ clock = COOLDOWN_HOURS

\* the square of the planar distance between the ends of the raw trace
RawGapSquared(points) ==
    LET first == points[1]
        last == points[Len(points)]
    IN  ((first[1] - last[1]) * (first[1] - last[1]))
        + ((first[2] - last[2]) * (first[2] - last[2]))

\* C15: a decoded trace passes the closure check exactly when the planar
\* distance between the first and the last point of the raw trace is at most
\* 100 m (100 m itself passes); above 100 m the trace is rejected and yields no
\* cell whatever lies between its ends; the check reads the raw trace and not
\* the cleaned ring, and a trace is rasterized, and can yield cells, only when
\* both the cleaning and the closure check pass.
C15_ClosureThreshold ==
    LET points == geo.polyline.points
        limit2 == LOOP_CLOSE_METERS * LOOP_CLOSE_METERS
        ringOk == cleanPolygonPoints(points) # NullRing
    IN  (/\ geo.stage \in {"returned", "validated", "rasterized", "both"}
         /\ geo.polyline.type = "string"
         /\ Len(points) >= 1)
        => /\ (geo.outcome = "loop") <=> (ringOk /\ RawGapSquared(points) <= limit2)
           /\ (ringOk /\ RawGapSquared(points) > limit2)
                  => geo.outcome = "notClosed"
           /\ RawGapSquared(points) > limit2
                  => geo.stage = "returned" /\ geo.cells = <<>>
           /\ geo.cells # <<>>
                  => /\ ringOk
                     /\ RawGapSquared(points) <= limit2
                     /\ geo.cells = polygonToCells(cleanPolygonPoints(points))

\* a trace whose ends are exactly 100 m apart, askew, was rasterized to cells
C15_Witness ==
    /\ geo.stage = "rasterized"
    /\ RawGapSquared(geo.polyline.points) = LOOP_CLOSE_METERS * LOOP_CLOSE_METERS
    /\ geo.polyline.points[Len(geo.polyline.points)] = <<60, 80>>
    /\ geo.cells # <<>>

-----------------------------------------------------------------------------
(* The loop cache *)

\* the positions of an invocation after prisma.activity.update has resolved
PastActivityUpdate == (StoreCallPcs \ {"updateActivity"}) \cup {"done"}

\* the activity's row holds the ring and the bounding box of its loop
Cached(a) ==
    /\ a \in DOMAIN loopCache
    /\ loopCache[a] = LoopColumns(ActivityRow(a).summaryPolyline)
    /\ LET ring == loopCache[a].loopPolygonGeojson
       IN  /\ ring = cleanPolygonPoints(ActivityRow(a).summaryPolyline.points)
           /\ \A k \in 1..Len(ring) :
                 /\ loopCache[a].loopMinLng <= ring[k][1]
                 /\ ring[k][1] <= loopCache[a].loopMaxLng
                 /\ loopCache[a].loopMinLat <= ring[k][2]
                 /\ ring[k][2] <= loopCache[a].loopMaxLat
           /\ \E k \in 1..Len(ring) : ring[k][1] = loopCache[a].loopMinLng
           /\ \E k \in 1..Len(ring) : ring[k][1] = loopCache[a].loopMaxLng
           /\ \E k \in 1..Len(ring) : ring[k][2] = loopCache[a].loopMinLat
           /\ \E k \in 1..Len(ring) : ring[k][2] = loopCache[a].loopMaxLat

\* the loops of the activities in LoopSet are cached once the invocation is
\* past the update of the activity row
CachedAheadOfCells(LoopSet) ==
    \A p \in Procs :
        (inv[p].activity \in LoopSet /\ inv[p].pc \in PastActivityUpdate)
            => Cached(inv[p].activity)

\* a store call that fails after the update leaves the loop cached
CachedWhenFailing(LoopSet) ==
    \A p \in Procs :
        (/\ inv[p].activity \in LoopSet
         /\ inv[p].pc \in PastActivityUpdate
         /\ inv'[p].pc = "failed")
            => (/\ inv[p].activity \in DOMAIN loopCache'
                /\ loopCache'[inv[p].activity] =
                       LoopColumns(ActivityRow(inv[p].activity).summaryPolyline))

RasterizedLoops == {a \in AllActivities : ActivityRow(a).outcome = "loop"}

NonEmptyLoops == {a \in RasterizedLoops : Len(ActivityRow(a).cells) > 0}

\* C16 as stated: every activity whose trace passes the cleaning and the
\* closure check and is rasterized has its loop polygon and bounding box
\* written, whatever happens to its cells.
C16_CacheForEveryRasterizedTrace ==
    /\ [] CachedAheadOfCells(RasterizedLoops)
    /\ [][CachedWhenFailing(RasterizedLoops)]_vars

\* C16: every activity whose trace passes the cleaning and the closure check
\* and is rasterized to at least one cell has its loop polygon and bounding
\* box (least and greatest coordinate of the ring on each axis) written before
\* any of its cells is read, and the row stays written when every cell is
\* skipped as locked by another user and when a later store call fails.
C16_CacheForEveryNonEmptyLoop ==
    /\ [] CachedAheadOfCells(NonEmptyLoops)
    /\ [][CachedWhenFailing(NonEmptyLoops)]_vars

\* an invocation returned with every cell skipped as locked by another user,
\* and the activity's loop is cached
C16_Witness ==
    /\ inv[1].pc = "done"
    /\ ActivityRow(inv[1].activity).outcome = "loop"
    /\ Len(CellsOf(1)) > 0
    /\ \A k \in 1..Len(CellsOf(1)) :
          /\ CellsOf(1)[k].cellId \in DOMAIN cells
          /\ cells[CellsOf(1)[k].cellId].ownerUserId # inv[1].userId
          /\ cells[CellsOf(1)[k].cellId].lockedUntil > inv[1].now
    /\ inv[1].gainedCellIds = <<>>
    /\ inv[1].claimsCreated = 0
    /\ ~ \E k \in 1..Len(claims) : claims[k].activityId = inv[1].activity
    /\ Cached(inv[1].activity)

-----------------------------------------------------------------------------
(* The scenario loops *)

\* a closed square of the given side whose lower left corner is at <<x, y>>
SquareLoop(x, y, side) ==
    <<<<x, y>>, <<x + side, y>>, <<x + side, y + side>>, <<x, y + side>>, <<x, y>>>>

\* where the corner of the square lies against the grid: on a cell border, on
\* a line of cell centres, in between, and left of and below the origin
SquareOffsets == {-510, -275, -50, -1, 0, 10, 25, 49}

\* the cells form a block of n by n cell indexes, each once
IsBlock(cellSeq, n) ==
    LET xs == {cellSeq[k].cellX : k \in 1..Len(cellSeq)}
        ys == {cellSeq[k].cellY : k \in 1..Len(cellSeq)}
    IN  /\ Len(cellSeq) = n * n
        /\ NoDuplicates([k \in 1..Len(cellSeq) |-> cellSeq[k].cellId])
        /\ Cardinality(xs) = n /\ Max(xs) - Min(xs) = n - 1
        /\ Cardinality(ys) = n /\ Max(ys) - Min(ys) = n - 1

\* the 500 m squares at these offsets each rasterize to 10 x 10 cells
SquaresAreBlocks ==
    \A x \in SquareOffsets, y \in SquareOffsets :
        IsBlock(polygonToCells(SquareLoop(x, y, 500)), 10)

\* the loop of the invocation in slot 1 found no row for any of its cells
OnFreeGround ==
    /\ idem.phase = "first"
    /\ idem.activity = inv[1].activity
    /\ ActivityRow(inv[1].activity).outcome = "loop"
    /\ \A k \in 1..Len(CellsOf(1)) : CellsOf(1)[k].cellId \notin DOMAIN idem.cells0

\* C17: when no cell of a closed loop has a record, the invocation creates one
\* cell and one LOOP_CAPTURE claim for each rasterized cell, all owned by the
\* claimer with the one lock now + 12 h; cellsCreated, claimsCreated and the
\* number of gained cells all equal the number of rasterized cells, and nothing
\* is lost, defended or notified; a 500 m x 500 m square rasterizes to a block
\* of 10 x 10 = 100 cells and yields 100 cells and 100 claim rows.
C17_ScenarioA ==
    /\ SquaresAreBlocks
    /\ (inv[1].pc = "done" /\ OnFreeGround) =>
         LET r == inv[1]
             loop == CellsOf(1)
             n == Len(loop)
         IN  /\ r.cellsCreated = n
             /\ r.claimsCreated = n
             /\ r.gainedCellIds = [k \in 1..n |-> loop[k].cellId]
             /\ r.lostCellIds = <<>>
             /\ r.defendedCellIds = <<>>
             /\ r.lostByPreviousOwner = <<>>
             /\ DOMAIN cells = DOMAIN idem.cells0 \cup {loop[k].cellId : k \in 1..n}
             /\ \A id \in DOMAIN idem.cells0 : cells[id] = idem.cells0[id]
             /\ \A k \in 1..n :
                   /\ cells[loop[k].cellId].ownerUserId = r.userId
                   /\ cells[loop[k].cellId].lockedUntil = r.now + COOLDOWN_HOURS
                   /\ cells[loop[k].cellId].cellX = loop[k].cellX
                   /\ cells[loop[k].cellId].cellY = loop[k].cellY
                   /\ cells[loop[k].cellId].lastActivityId = r.activity
             /\ Len(claims) = idem.claimsLen + n
             /\ \A k \in 1..n :
                   /\ claims[idem.claimsLen + k].cellId = loop[k].cellId
                   /\ claims[idem.claimsLen + k].claimerUserId = r.userId
                   /\ claims[idem.claimsLen + k].previousOwnerUserId = NoUser
                   /\ claims[idem.claimsLen + k].activityId = r.activity
                   /\ claims[idem.claimsLen + k].reason = "LOOP_CAPTURE"
             /\ Len(notifications) = idem.notificationsLen
             /\ (r.activity = "sA") => (n = 100 /\ IsBlock(loop, 10))

\* the 500 m square was run on the empty grid: 100 cells and 100 claim rows
C17_Witness ==
    /\ inv[1].pc = "done"
    /\ OnFreeGround
    /\ idem.cells0 = <<>>
    /\ inv[1].activity = "sA"
    /\ inv[1].cellsCreated = 100
    /\ Cardinality(DOMAIN cells) = 100
    /\ Len(claims) = 100

\* the cells of the loop in slot 1, in rasterization order, that the store at
\* the call held for owner with the lock run out
TransferredFrom(owner) ==
    LET r == inv[1]
        ids == [k \in 1..Len(CellsOf(1)) |-> CellsOf(1)[k].cellId]
        Taken(id) == /\ id \in DOMAIN idem.cells0
                     /\ idem.cells0[id].ownerUserId = owner
                     /\ owner # r.userId
                     /\ idem.cells0[id].lockedUntil <= r.now
    IN  SelectSeq(ids, Taken)

\* the notifications created since the call
NewNotifications ==
    SubSeq(notifications, idem.notificationsLen + 1, Len(notifications))

RECURSIVE SumCountLost(_)
SumCountLost(list) ==
    IF list = <<>> THEN 0 ELSE list[1].countLost + SumCountLost(Tail(list))

\* C18: a run emits one TERRITORY_CONQUERED notification for each previous
\* owner it took at least one cell from and for nobody else; countLost is the
\* number of cells taken from that owner, the sample of cell ids is the first
\* min(100, countLost) of them, and the countLost values add up to the length
\* of the lost list.
C18_ConquestAggregation ==
    (/\ inv[1].pc = "done"
     /\ idem.phase = "first"
     /\ idem.activity = inv[1].activity) =>
        LET new == NewNotifications
            owners == {o \in Users : TransferredFrom(o) # <<>>}
        IN  /\ Len(new) = Cardinality(owners)
            /\ {new[k].userId : k \in 1..Len(new)} = owners
            /\ \A k \in 1..Len(new) :
                  LET taken == TransferredFrom(new[k].userId)
                      cap == IF Len(taken) < 100 THEN Len(taken) ELSE 100
                  IN  /\ new[k].type = "TERRITORY_CONQUERED"
                      /\ new[k].countLost = Len(taken)
                      /\ new[k].cellIds = SubSeq(taken, 1, cap)
            /\ SumCountLost(new) = Len(inv[1].lostCellIds)

\* one run took 100 cells from one owner and 10 from another: two
\* notifications, the first with a sample of all its 100 cells
C18_Witness ==
    /\ inv[1].pc = "done"
    /\ idem.phase = "first"
    /\ idem.activity = inv[1].activity
    /\ Len(NewNotifications) = 2
    /\ NewNotifications[1].countLost = 100
    /\ Len(NewNotifications[1].cellIds) = 100
    /\ NewNotifications[2].countLost = 10
    /\ Len(inv[1].lostCellIds) = 110
    /\ inv[1].cellsCreated = 0

-----------------------------------------------------------------------------
(* What a conquest notification tells the previous owner *)

\* prisma.friendship.findFirst finds a row in either direction
isFriend(previousOwnerId, userId) ==
    \/ <<previousOwnerId, userId>> \in Friendships
    \/ <<userId, previousOwnerId>> \in Friendships

\* C19: when no friendship exists between the claimer and the previous owner,
\* the notification created for the previous owner (title, body and meta)
\* holds nothing that identifies the claimer: it is the payload any other
\* user who is no friend of the owner would have caused with the same cells.
C19_AnonymizedForNonFriends ==
    [][\A p \in Procs :
          (/\ inv[p].pc = "notify"
           /\ Len(notifications') = Len(notifications) + 1)
          => LET n == notifications'[Len(notifications')]
                 entry == inv[p].lostByPreviousOwner[inv[p].k]
                 claimer == inv[p].userId
             IN  ~ isFriend(n.userId, claimer)
                 => /\ n.attackerUserId # claimer
                    /\ n.attackerNickname # Nickname(claimer)
                    /\ \A other \in Users \ {n.userId} :
                          ~ isFriend(n.userId, other)
                              => n = ConquestNotification(entry, other)]_vars

-----------------------------------------------------------------------------
(* The rasterizer and the direction of the ring *)

CellKeys(cellSeq) == {cellSeq[k].cellId : k \in 1..Len(cellSeq)}

-----------------------------------------------------------------------------
(* The rasterizer's result *)

\* the ray from (px, py) toward larger x crosses the edge from a to b, decided
\* without rounding: the differences and products are kept in full
CrossesRay(px, py, a, b) ==
    LET Product(u, v) == Odd64(u.neg # v.neg, MulDigits(u.mant, v.mant),
                               u.exp + v.exp)
        Difference(u, v) ==
            LET e == Min({u.exp, v.exp})
                mu == ShiftLeft(u.mant, u.exp - e)
                mv == ShiftLeft(v.mant, v.exp - e)
            IN  IF u.neg # v.neg THEN Odd64(u.neg, AddDigits(mu, mv), e)
                ELSE IF CompareDigits(mu, mv) >= 0
                THEN Odd64(u.neg, SubDigits(mu, mv), e)
                ELSE Odd64(~ u.neg, SubDigits(mv, mu), e)
        den == Difference(b.y, a.y)
        num == Product(Difference(b.x, a.x), Difference(py, a.y))
        lhs == Product(Difference(px, a.x), den)
    IN  /\ Less64(py, a.y) # Less64(py, b.y)
        /\ IF den.neg THEN Less64(num, lhs) ELSE Less64(lhs, num)

\* even-odd rule: an odd number of edges of the ring is crossed
InsideEvenOdd(px, py, polygon) ==
    Cardinality({k \in 1..(Len(polygon) - 1) :
                    CrossesRay(px, py, polygon[k], polygon[k + 1])}) % 2 = 1

\* floor(v / 50) for the coordinate v = m + f / 2^31
FloorCell(c) == (IF c[2] < 0 THEN c[1] - 1 ELSE c[1]) \div CELL_SIZE_METERS

\* the cells of the inclusive index range of the ring's bounding box whose
\* centre is inside the ring
CellsInside(ring) ==
    LET xs == {FloorCell(ring[k][1]) : k \in 1..Len(ring)}
        ys == {FloorCell(ring[k][2]) : k \in 1..Len(ring)}
    IN  {Cell(cx, cy) : cx \in Min(xs)..Max(xs), cy \in Min(ys)..Max(ys)}
        \cap {c \in {Cell(cx, cy) : cx \in Min(xs)..Max(xs), cy \in Min(ys)..Max(ys)} :
                 InsideEvenOdd(
                     Int64((c.cellX * CELL_SIZE_METERS) + (CELL_SIZE_METERS \div 2)),
                     Int64((c.cellY * CELL_SIZE_METERS) + (CELL_SIZE_METERS \div 2)),
                     MercatorPolygon(ring))}

RasterizedAs(cellSeq, ring) ==
    /\ Range(cellSeq) = CellsInside(ring)
    /\ \A m, n \in 1..Len(cellSeq) : m # n => cellSeq[m].cellId # cellSeq[n].cellId
    /\ \A n \in 1..Len(cellSeq) :
           cellSeq[n].cellId = getCellId(cellSeq[n].cellX, cellSeq[n].cellY)

-----------------------------------------------------------------------------
(* What GET /api/territory tells the requester *)

\* C22: in a response of GET /api/territory, a cell whose owner is neither
\* the requester nor a friend of the requester carries no owner id and no
\* nickname, and is left out in view=friends; friendNickname appears only in
\* view=friends and only on a cell owned by a friend of the requester.
C22_TerritoryPrivacy ==
    (req.phase = "responded" /\ req.status = 200) =>
        \A k \in 1..Len(req.cells) :
            LET payload == req.cells[k]
                owner == cells[payload.cellId].ownerUserId
            IN  /\ (owner # req.user /\ ~ isFriend(owner, req.user)) =>
                       /\ req.view # "friends"
                       /\ DOMAIN payload = {"cellId", "cellX", "cellY", "ownerType",
                                            "colorKey", "coordinates"}
                       /\ payload.ownerType = "other"
                       /\ payload.colorKey = "other"
                /\ "friendNickname" \in DOMAIN payload =>
                       /\ req.view = "friends"
                       /\ isFriend(owner, req.user)

\* the everyone view of a user with a friend's cell and a stranger's cell
C22_Witness ==
    /\ req.phase = "responded"
    /\ req.status = 200
    /\ req.view = "everyone"
    /\ \E k, l \in 1..Len(req.cells) :
           /\ req.cells[k].ownerType = "other"
           /\ req.cells[l].ownerType = "friend"

-----------------------------------------------------------------------------
(* The order of the writes of one invocation *)

\* this step is slot p's territoryCell.create or update resolving
WriteStep(p) ==
    \/ Moves(p, "create", "createClaim")
    \/ Moves(p, "refresh", "refreshClaim")
    \/ Moves(p, "transfer", "transferClaim")

\* C23: a claim row is appended only after the ownership write of the same
\* cell by the same invocation has completed, so no claim row exists for a
\* cell state that was not written; an invocation resolves its cells one at
\* a time in rasterization order.
C23_ClaimAfterOwnWrite ==
    /\ [](\A n \in 1..Len(claims) :
            /\ claims[n].cellId \in DOMAIN cells
            /\ claims[n].basis < cellVer[claims[n].cellId])
    /\ [](\A c \in DOMAIN cellVer : Len(ClaimsOfCell(claims, c)) <= cellVer[c])
    /\ [][\A p \in Procs :
            /\ ClaimStep(p)
               => /\ Cur(p) \in DOMAIN cells
                  /\ cellVer[Cur(p)] > inv[p].readVer
                  /\ claims' = Append(claims, claims'[Len(claims')])
                  /\ claims'[Len(claims')].cellId = Cur(p)
                  /\ cells' = cells
            /\ ( inv'[p].pc \in {"createClaim", "refreshClaim", "transferClaim"}
                 /\ inv'[p].pc # inv[p].pc )
               => /\ WriteStep(p)
                  /\ inv'[p].i = inv[p].i
                  /\ cellVer' = [cellVer EXCEPT ![Cur(p)] = @ + 1]
                  /\ cells'[Cur(p)].lastActivityId = inv[p].activity
                  /\ claims' = claims
            /\ ( inv'[p].i # inv[p].i /\ inv'[p].pc \notin {"idle", "failed"} )
               => /\ inv'[p].i = inv[p].i + 1
                  /\ inv[p].pc \in {"updateActivity", "findUnique", "createClaim",
                                    "refreshClaim", "transferClaim"}]_vars

\* C23 witness: an invocation has written its second cell and its claim row
\* for that cell is still to come, after the row of its first cell
C23_Witness ==
    \E p \in Procs :
        /\ inv[p].pc \in {"createClaim", "transferClaim"}
        /\ inv[p].i = 2
        /\ \E n \in 1..Len(claims) :
               /\ claims[n].cellId = CellsOf(p)[1].cellId
               /\ claims[n].activityId = inv[p].activity
        /\ Len(ClaimsOfCell(claims, Cur(p))) < cellVer[Cur(p)]

-----------------------------------------------------------------------------
(* An invocation aborted at a store call *)

\* C24: when an invocation is aborted at a suspension point, every write
\* completed before stays, every cell with a record has one owner, the cells
\* not yet attempted are unchanged, and every cell whose ownership was
\* written also has its claim row.
C24_AbortLeavesValidStore ==
    /\ [](inv[1].pc = "failed" =>
            \A c \in DOMAIN cells :
                /\ cells[c].ownerUserId \in Users
                /\ Len(ClaimsOfCell(claims, c)) = cellVer[c])
    /\ [][/\ inv'[1].pc = "failed" => store' = store
          /\ cells' # cells
             => /\ \A c \in DOMAIN cells \ {Cur(1)} : cells'[c] = cells[c]
                /\ DOMAIN cells' = DOMAIN cells \cup {Cur(1)}]_vars

-----------------------------------------------------------------------------
(* The Loop Validator *)

\* the points of a trace that differ from the point before them, in order
WithoutRepeats(points) ==
    LET kept(k) == k = 1 \/ points[k] # points[k - 1]
        RECURSIVE upTo(_)
        upTo(k) == IF k = 0 THEN <<>>
                   ELSE IF kept(k) THEN Append(upTo(k - 1), points[k])
                   ELSE upTo(k - 1)
    IN  upTo(Len(points))

\* C25: cleanPolygonPoints returns null whenever fewer than 3 distinct points
\* remain after the consecutive duplicates are removed; a ring it returns has
\* 4 points or more, ends on its first point, has no two equal points in a
\* row, and is the input without its consecutive duplicates, with at most one
\* copy of the first point appended.
C25_LoopValidator ==
    ( \/ geo.stage \in {"validated", "rasterized", "both"}
      \/ geo.stage = "returned" /\ geo.outcome \in {"notPolygon", "notClosed"} )
    => LET points == geo.polyline.points
           remaining == WithoutRepeats(points)
       IN  /\ Cardinality(Range(remaining)) < 3 => geo.ring = NullRing
           /\ geo.ring # NullRing
              => /\ Len(geo.ring) >= 4
                 /\ geo.ring[1] = geo.ring[Len(geo.ring)]
                 /\ \A k \in 1..(Len(geo.ring) - 1) : geo.ring[k] # geo.ring[k + 1]
                 /\ \/ geo.ring = remaining
                    \/ geo.ring = Append(remaining, remaining[1])

-----------------------------------------------------------------------------
(* The throttle of POST /api/strava/auto-sync *)

\* the auto-sync requests that entered runIncrementalSync
ExecutedAutoSyncs == {h \in Procs : req.h[h].kind = "auto" /\ req.h[h].ran}

\* C26: a request of the user that arrives less than AUTO_SYNC_MINUTES after
\* the recorded lastAutoSyncAt is answered skipped/throttle, and the step
\* that answers it changes nothing else; any two auto-sync requests of the
\* user that entered runIncrementalSync arrived at least AUTO_SYNC_MINUTES
\* apart; and lastAutoSyncAt changes only in the step in which an auto-sync
\* request whose run completed answers skipped: false, to that request's now
C26_AutoSyncThrottle ==
    /\ [](\A g, h \in ExecutedAutoSyncs :
              g # h => (req.h[g].now - req.h[h].now) * 60 >= AUTO_SYNC_MINUTES
                       \/ (req.h[h].now - req.h[g].now) * 60 >= AUTO_SYNC_MINUTES)
    /\ [][/\ \A h \in Procs :
               /\ req.h[h].pc = "none"
               /\ req'.h[h].pc # "none"
               /\ req'.h[h].kind = "auto"
               /\ req.lastAutoSyncAt # <<>>
               /\ (clock - req.lastAutoSyncAt[1]) * 60 < AUTO_SYNC_MINUTES
               => /\ req'.h[h].response.status = 200
                  /\ req'.h[h].response.skipped
                  /\ req'.h[h].response.reason = "throttle"
                  /\ ~req'.h[h].ran
                  /\ req' = [req EXCEPT !.h[h] = req'.h[h]]
                  /\ <<cells, claims, notifications, loopCache, inv>>'
                       = <<cells, claims, notifications, loopCache, inv>>
          /\ req'.lastAutoSyncAt # req.lastAutoSyncAt
             => \E h \in Procs :
                   /\ req.h[h].pc = "updateAuto"
                   /\ req'.h[h].pc = "responded"
                   /\ req'.h[h].response.status = 200
                   /\ ~req'.h[h].response.skipped
                   /\ req'.lastAutoSyncAt = <<req.h[h].now>>]_vars

-----------------------------------------------------------------------------
(* The lock of a cell over time *)

\* C27: under any interleaving of invocations, each sampling its now once
\* before its first cell from a clock that never goes back, no step lowers
\* the lockedUntil of a stored cell, and no stored cell disappears
C27_LockNeverDecreases ==
    [][\A c \in DOMAIN cells :
           /\ c \in DOMAIN cells'
           /\ cells'[c].lockedUntil >= cells[c].lockedUntil]_vars

-----------------------------------------------------------------------------
(* Two invocations creating the same cell *)

\* C28: on a store whose calls reject for no reason of their own, two
\* invocations that are both at the create of one cell have both read it as
\* absent; the create that answers first inserts the record with its
\* claimer as the owner and leaves the other invocation waiting; a create
\* that answers when the record exists fails, and the step leaves the four
\* tables as they are; a failed invocation takes no further step but its
\* caller's catch, which writes nothing; and a stored record stays stored
\* with one owner
C28_ConcurrentFirstClaim ==
    /\ [](\A p, q \in Procs :
              /\ p # q
              /\ inv[p].pc = "create"
              /\ inv[q].pc = "create"
              /\ CurrentCell(p).cellId = CurrentCell(q).cellId
              => CurrentCell(p).cellId \notin DOMAIN cells)
    /\ [](\A c \in DOMAIN cells : cells[c].ownerUserId \in Users)
    /\ [][\A p \in Procs :
              inv[p].pc = "create" /\ inv'[p].pc # "create"
              => LET c == CurrentCell(p).cellId
                 IN  IF c \notin DOMAIN cells
                     THEN /\ inv'[p].pc = "createClaim"
                          /\ DOMAIN cells' = DOMAIN cells \cup {c}
                          /\ cells'[c].ownerUserId = inv[p].userId
                          /\ claims' = claims
                          /\ \A q \in Procs \ {p} : inv'[q] = inv[q]
                     ELSE /\ inv'[p] = Failed(inv[p])
                          /\ store' = store
                          /\ cellVer' = cellVer]_vars
    /\ [][\A p \in Procs :
              inv[p].pc = "failed" /\ inv'[p] # inv[p]
              => inv'[p] = Idle /\ store' = store]_vars
    /\ [][\A c \in DOMAIN cells : c \in DOMAIN cells']_vars

\* two users were at the create of the first cell of their loops: one has
\* inserted the record and is about to append its claim row, the other has
\* failed, and the cell has one write and no claim row yet
C28_Witness ==
    \E p, q \in Procs :
        /\ inv[p].pc = "failed"
        /\ inv[q].pc = "createClaim"
        /\ inv[p].userId # inv[q].userId
        /\ DOMAIN cells = {CurrentCell(q).cellId}
        /\ cells[CurrentCell(q).cellId].ownerUserId = inv[q].userId
        /\ cellVer[CurrentCell(q).cellId] = 1
        /\ claims = <<>>

-----------------------------------------------------------------------------
(* The result of an invocation *)

\* the cell ids of the rasterized cell set of the invocation in slot p
RasterizedIds(p) == {CellsOf(p)[k].cellId : k \in 1..Len(CellsOf(p))}

\* C29: in the result of an invocation that returns, no cell is both gained
\* and defended, every lost cell is gained, claimsCreated is the number of
\* gained plus defended cells, cellsCreated is the number of gained minus
\* lost cells, and the listed cells are of the rasterized set; the write
\* that precedes the listing of a cell leaves the cell owned by the claimer
\* with lockedUntil = now + COOLDOWN_HOURS and changes no other cell; and
\* the record an invocation reads is of a cell of its rasterized set
C29_ResultAccounting ==
    /\ [](\A p \in Procs :
              inv[p].pc = "done"
              => LET r == inv[p]
                 IN  /\ Range(r.gainedCellIds) \cap Range(r.defendedCellIds) = {}
                     /\ Range(r.lostCellIds) \subseteq Range(r.gainedCellIds)
                     /\ Cardinality(Range(r.gainedCellIds)) = Len(r.gainedCellIds)
                     /\ Cardinality(Range(r.defendedCellIds)) = Len(r.defendedCellIds)
                     /\ Cardinality(Range(r.lostCellIds)) = Len(r.lostCellIds)
                     /\ r.claimsCreated = Len(r.gainedCellIds) + Len(r.defendedCellIds)
                     /\ r.cellsCreated = Len(r.gainedCellIds) - Len(r.lostCellIds)
                     /\ r.activity # "none"
                        => Range(r.gainedCellIds) \cup Range(r.defendedCellIds)
                              \subseteq RasterizedIds(p))
    /\ [](\A p \in Procs :
              inv[p].existing # <<>> => inv[p].existing[1].cellId \in RasterizedIds(p))
    /\ [][\A p \in Procs :
              inv'[p].pc \in {"createClaim", "refreshClaim", "transferClaim"}
              /\ inv[p].pc # inv'[p].pc
              => LET c == CurrentCell(p).cellId
                 IN  /\ c \in RasterizedIds(p)
                     /\ cells'[c].ownerUserId = inv[p].userId
                     /\ cells'[c].lockedUntil = inv[p].now + COOLDOWN_HOURS
                     /\ \A d \in DOMAIN cells \ {c} : cells'[d] = cells[d]
                     /\ DOMAIN cells' = DOMAIN cells \cup {c}]_vars
    /\ [][\A p \in Procs :
              inv[p].pc \in {"createClaim", "refreshClaim", "transferClaim"}
              /\ inv[p].pc # inv'[p].pc
              /\ inv'[p].pc # "failed"
              => /\ cells' = cells
                 /\ IF inv[p].pc = "refreshClaim"
                    THEN /\ inv'[p].defendedCellIds
                              = Append(inv[p].defendedCellIds, CurrentCell(p).cellId)
                         /\ inv'[p].gainedCellIds = inv[p].gainedCellIds
                    ELSE /\ inv'[p].gainedCellIds
                              = Append(inv[p].gainedCellIds, CurrentCell(p).cellId)
                         /\ inv'[p].defendedCellIds = inv[p].defendedCellIds]_vars
    /\ [][cells' # cells
           => \E p \in Procs :
                 /\ inv[p].pc \in {"create", "refresh", "transfer"}
                 /\ inv'[p].pc \in {"createClaim", "refreshClaim", "transferClaim"}]_vars

-----------------------------------------------------------------------------
(* The activities of concurrent runs of runIncrementalSync *)

\* how many times activity a was stored and handed to applyLoopClaims
TimesApplied(a) ==
    Cardinality({k \in 1..Len(req.applied) : req.applied[k] = a})

\* C30: across the interleaved runs of the user, no activity is stored or
\* handed to applyLoopClaims more than once, and applyLoopClaims starts only
\* in the step that stores the activity it is called for; a findUnique that
\* finds the activity stored goes on to the rest of the list without a call
\* of applyLoopClaims and without a write, whatever became of the earlier
\* claim resolution; and a run that reaches the end of its list sets
\* lastSyncAt to the time at which it started
C30_AtMostOncePerActivity ==
    /\ [](\A a \in AllActivities : TimesApplied(a) <= 1)
    /\ [](Range(req.applied) = req.activities)
    /\ [][runs' # runs
           => \E h \in Procs :
                 LET a == Head(req.h[h].list)
                 IN  /\ req.h[h].pc = "create"
                     /\ a \notin req.activities
                     /\ runs' = runs + 1
                     /\ req'.activities = req.activities \cup {a}
                     /\ req'.applied = Append(req.applied, a)
                     /\ req'.h[h].pc = "apply"
                     /\ inv'[req'.h[h].slot].activity = a
                     /\ inv[req'.h[h].slot].pc = "idle"]_vars
    /\ [][\A h \in Procs :
              /\ req.h[h].pc = "findUnique"
              /\ Head(req.h[h].list) \in req.activities
              /\ req'.h[h] # req.h[h]
              => /\ \/ /\ req'.h[h].list = Tail(req.h[h].list)
                       /\ req'.h[h].pc = IF Tail(req.h[h].list) = <<>>
                                         THEN "updateSync" ELSE "findUnique"
                       /\ req'.h[h].added = req.h[h].added
                    \/ req'.h[h].response = ErrorResponse
                 /\ req'.applied = req.applied
                 /\ req'.activities = req.activities
                 /\ inv' = inv
                 /\ store' = store]_vars
    /\ [][\A h \in Procs :
              /\ req.h[h].pc = "updateSync"
              /\ req'.h[h] # req.h[h]
              /\ req'.h[h].response # ErrorResponse
              => req'.lastSyncAt = <<req.h[h].now>>]_vars

\* a run has stored a1 and its claim resolution has failed after the first
\* cell was written; a later request found a1 stored, skipped it, added
\* nothing, set lastSyncAt to its own start and answered
C30_Witness ==
    \E h \in Procs :
        /\ req.phase = "serving"
        /\ req.h[h].pc = "responded"
        /\ req.h[h].response.status = 200
        /\ req.h[h].skipped = {"a1"}
        /\ req.h[h].added = 0
        /\ req.h[h].now > 0
        /\ req.lastSyncAt = <<req.h[h].now>>
        /\ req.applied = <<"a1">>
        /\ DOMAIN cells = {"0:0"}
        /\ claims = <<>>
        /\ \A p \in Procs : inv[p].pc = "idle"

====
